---- MODULE Spec2Model ----
(***************************************************************************)
(* DevKitX: the delete / undo commands (src/src/commands/status.ts, the    *)
(* part that is commands/delete.ts) and the ralphy installer               *)
(* (src/src/commands/ralph.ts, installRalphy and `ralph install`).         *)
(*                                                                         *)
(* Strings are sequences of one-character strings, so that toLowerCase,    *)
(* startsWith, includes, basename and path resolution are computed the way *)
(* the code computes them.                                                 *)
(***************************************************************************)
EXTENDS Integers, Sequences, FiniteSets, TLC

(***************************************************************************)
(* Bounds of the model.                                                    *)
(***************************************************************************)
\* number of CLI invocations (delete / undo) in one behaviour
MaxCmds == 2
\* number of `ralph install` runs in one behaviour
MaxInstalls == 2
\* calls of the MSYS2 fix functions in one behaviour
MaxFixCalls == 2
\* seconds that pass during the calls of the MSYS2 fix functions
MaxFixClock == 1

(***************************************************************************)
(* String primitives.                                                      *)
(***************************************************************************)
Lower(c) ==
  CASE c = "A" -> "a" [] c = "B" -> "b" [] c = "C" -> "c" [] c = "F" -> "f"
    [] c = "P" -> "p" [] c = "W" -> "w" [] OTHER -> c

\* String.prototype.toLowerCase
ToLowerCase(s) == [i \in 1..Len(s) |-> Lower(s[i])]

\* s.replace(/\\/g, "/")
ReplaceBackslashes(s) == [i \in 1..Len(s) |-> IF s[i] = "\\" THEN "/" ELSE s[i]]

\* String.prototype.startsWith
StartsWith(s, p) == Len(p) <= Len(s) /\ SubSeq(s, 1, Len(p)) = p

\* String.prototype.includes
Includes(s, p) ==
  \E i \in 0..(Len(s) - Len(p)) : SubSeq(s, i + 1, i + Len(p)) = p

\* index of the first occurrence of p in s (0 when there is none)
IndexOf(s, p) ==
  IF Includes(s, p)
    THEN CHOOSE i \in 1..(Len(s) - Len(p) + 1) :
           /\ SubSeq(s, i, i + Len(p) - 1) = p
           /\ \A j \in 1..(i - 1) : SubSeq(s, j, j + Len(p) - 1) # p
    ELSE 0

\* String.prototype.replace(pattern: string, replacement: string): the first
\* occurrence only; none of the replacement texts of the installer holds a
\* "$" pattern ($$, $&, $`, $') that replace would expand
ReplaceFirst(s, p, r) ==
  LET i == IndexOf(s, p) IN
    IF i = 0 THEN s
    ELSE SubSeq(s, 1, i - 1) \o r \o SubSeq(s, i + Len(p), Len(s))

(***************************************************************************)
(* Paths (POSIX separators).                                               *)
(***************************************************************************)
RECURSIVE SplitFrom(_, _, _)
\* the "/"-separated segments of s from index i on, cur being the segment
\* read so far; empty segments are dropped
SplitFrom(s, i, cur) ==
  IF i > Len(s) THEN (IF cur = <<>> THEN <<>> ELSE <<cur>>)
  ELSE IF s[i] = "/"
    THEN (IF cur = <<>> THEN <<>> ELSE <<cur>>) \o SplitFrom(s, i + 1, <<>>)
    ELSE SplitFrom(s, i + 1, Append(cur, s[i]))

Segments(s) == SplitFrom(s, 1, <<>>)

RECURSIVE NormFrom(_, _, _)
\* "." dropped, ".." pops (never above the root)
NormFrom(segs, i, stack) ==
  IF i > Len(segs) THEN stack
  ELSE IF segs[i] = <<".">> THEN NormFrom(segs, i + 1, stack)
  ELSE IF segs[i] = <<".", ".">>
    THEN NormFrom(segs, i + 1,
                  IF stack = <<>> THEN <<>> ELSE SubSeq(stack, 1, Len(stack) - 1))
    ELSE NormFrom(segs, i + 1, Append(stack, segs[i]))

RECURSIVE Unsegments(_)
Unsegments(segs) ==
  IF segs = <<>> THEN <<>>
  ELSE <<"/">> \o Head(segs) \o Unsegments(Tail(segs))

IsAbsolute(p) == p # <<>> /\ p[1] = "/"

\* the directory the operating system resolves p to for a process whose
\* working directory is c: absolute, normalised, no trailing separator
Resolve(c, p) ==
  LET abs  == IF IsAbsolute(p) THEN p ELSE c \o <<"/">> \o p
      segs == NormFrom(Segments(abs), 1, <<>>)
  IN IF segs = <<>> THEN <<"/">> ELSE Unsegments(segs)

\* path.join(a, b) for an absolute a: normalised, a trailing separator kept
PathJoin(a, b) ==
  LET segs == NormFrom(Segments(a \o <<"/">> \o b), 1, <<>>)
      body == IF segs = <<>> THEN <<"/">> ELSE Unsegments(segs)
  IN IF b # <<>> /\ b[Len(b)] = "/" /\ segs # <<>> THEN body \o <<"/">> ELSE body

\* path.basename: trailing separators ignored, "." and ".." kept as they are
Basename(p) ==
  LET segs == Segments(p) IN IF segs = <<>> THEN <<>> ELSE segs[Len(segs)]

(***************************************************************************)
(* The directories of the modelled file system.                            *)
(***************************************************************************)
ROOT == <<"/">>
HOME == <<"/", "h">>
\* HOME/dev, one of SEARCH_PATHS
DEV == HOME \o <<"/", "d", "e", "v">>
\* a DevKitX project, and a subdirectory of it
PA == DEV \o <<"/", "A", "b">>
PAS == PA \o <<"/", "s">>
\* a second project
PB == DEV \o <<"/", "b">>
\* a system directory that may hold a package.json
USR == <<"/", "u", "s", "r">>

\* directories that can be created and removed
Projects == {PA, PB, USR}

Absent == [exists |-> FALSE, marker |-> "none", nm |-> FALSE, build |-> FALSE,
           sub |-> FALSE, content |-> 0]

(***************************************************************************)
(* State.                                                                  *)
(***************************************************************************)
VARIABLES
  fs,            \* [Projects -> directory state]
  archives,      \* [BackupPaths -> archive file state], HOME/.devkitx/backups
  ledger,        \* the file UNDO_FILE (HOME/.devkitx/last-deleted.json)
  cfgDirs,       \* which of HOME/.devkitx and HOME/.devkitx/backups exist
  clock,         \* wall clock, seconds
  runs,          \* CLI invocations started so far
  pc,            \* position of the running command
  kind,          \* "none", "delete" or "undo"
  cwd,           \* process.cwd() of the running command
  opts,          \* commander options of the running delete
  projectPath,   \* delete: let projectPath
  projectName,   \* delete: const projectName
  hasNodeModules,\* delete: stats.hasNodeModules
  shouldBackup,  \* delete: let shouldBackup
  backupPath,    \* delete: let backupPath ("" is <<>>)
  undoInfo,      \* undo: the parsed ledger record
  outcome,       \* the branch the command ended in
  msgs,          \* what the command has told the user
  exitCode,      \* exit status of the process, read when pc = "done"
  pre,           \* the file system state when the command started
  typed,         \* the last string the type-to-confirm prompt was given
  archiver,      \* how the Compress-Archive child process of this run ended
  extractor,     \* how the Expand-Archive child process of this run ended
  upstream,      \* installer: what the upstream ralphy.sh holds, per patch region
  script,        \* installer: let script
  patchLog,      \* installer: what the patch steps of this run logged
  ralphyFile,    \* installer: content of RALPHY_SCRIPT (<<>>: no file)
  auxFiles,      \* installer: wrapper and launcher files written
  ipc,           \* installer: position of `ralph install`
  installs,      \* installer: runs of `ralph install` started so far
  response,      \* installer: how the fetch of this run ended
  downloads,     \* installer: fetch calls of this run
  fileBefore,    \* installer: content of RALPHY_SCRIPT when this run started
  installExit,   \* installer: exit status, read when ipc = "exited"
  rpc,           \* ralph run: position of the command
  runOptions,    \* ralph run: commander options
  args,          \* ralph run: const args, the arguments given to ralphy.sh
  childEnd,      \* ralph run: how the spawned script ended
  runFailure,    \* ralph run: the rejection runRalphy hands to its caller
  runExit,       \* ralph run: exit status, read when rpc = "exited"
  tree,          \* scanner: what each directory of the scanned tree holds
  spc,           \* scanner: "idle", or the command that has run
  pathsToSearch, \* scanner: the roots of the scan, in order
  searchDepth,   \* scanner: const searchDepth
  includeAll,    \* list: options.all
  uniqueProjects,\* scanner: the records the scan ended with
  goName,        \* go: the name argument
  selectedProject, \* go: index in uniqueProjects of the project chosen, 0: none
  undoFile,      \* two deletes: the content of UNDO_FILE, cell by cell
  wpc,           \* two deletes: where each invocation is with UNDO_FILE
  wrec,          \* two deletes: the undoInfo of each invocation
  lastWriter,    \* two deletes: the invocation whose write came last, 0: none
  fixesScript,   \* MSYS2 fixes: the version of fixes.sh that is loaded
  targetFile,    \* MSYS2 fixes: project_root/.ralph/ralphy.sh
  backupFiles,   \* MSYS2 fixes: ralphy.sh.bak.<time stamp>, by time stamp
  backupDir,     \* MSYS2 fixes: whether ./.ralphy-backups exists
  flagDir,       \* MSYS2 fixes: whether the directory of the flag file exists
  flagFile,      \* MSYS2 fixes: whether RALPHY_FIXES_APPLIED_FILE exists
  autoFix,       \* MSYS2 fixes: RALPHY_AUTO_FIX is "true"
  autoFixOnce,   \* MSYS2 fixes: RALPHY_AUTO_FIX_ONCE is "true"
  msys2,         \* MSYS2 fixes: detect_msys2_environment succeeds
  fixClock,      \* MSYS2 fixes: wall clock, seconds
  fixLog         \* MSYS2 fixes: the calls made so far and what they returned

worldVars == <<fs, archives, ledger, cfgDirs, clock>>
cmdVars == <<runs, pc, kind, cwd, opts, projectPath, projectName, hasNodeModules,
             shouldBackup, backupPath, undoInfo, outcome, msgs, exitCode, pre,
             typed, archiver, extractor>>
installVars == <<upstream, script, patchLog, ralphyFile, auxFiles, ipc,
                 installs, response, downloads, fileBefore, installExit>>
runVars == <<rpc, runOptions, args, childEnd, runFailure, runExit>>
\* what neither delete, undo nor the installer touches
scanVars == <<tree, spc, pathsToSearch, searchDepth, includeAll,
              uniqueProjects, goName, selectedProject>>
raceVars == <<undoFile, wpc, wrec, lastWriter>>
fixVars == <<fixesScript, targetFile, backupFiles, backupDir, flagDir, flagFile,
             autoFix, autoFixOnce, msys2, fixClock, fixLog>>
extraVars == <<runVars, scanVars, raceVars, fixVars>>
vars == <<worldVars, cmdVars, installVars, extraVars>>

(***************************************************************************)
(* File system helpers.                                                    *)
(***************************************************************************)
\* existsSync of a directory, d resolved
DirExistsIn(f, d) ==
  \/ d \in {ROOT, HOME, DEV}
  \/ d \in Projects /\ f[d].exists
  \/ d = PAS /\ f[PA].exists /\ f[PA].sub

\* existsSync(p) in a process whose working directory is c
ExistsIn(f, c, p) == p # <<>> /\ DirExistsIn(f, Resolve(c, p))

\* existsSync(join(p, "project.yaml"))
HasProjectYaml(f, c, p) ==
  LET d == Resolve(c, p) IN d \in Projects /\ f[d].exists /\ f[d].marker = "yaml"

\* existsSync(join(p, "package.json"))
HasPackageJson(f, c, p) ==
  LET d == Resolve(c, p) IN d \in Projects /\ f[d].exists /\ f[d].marker = "pkg"

\* the names a backup archive can carry
Names == {Basename(p) : p \in Projects} \cup {<<".">>, <<".", ".">>}
\* a second of the wall clock passes between two commands at most once
BackupPaths == Names \X (0..MaxCmds)

NoFile == [exists |-> FALSE, size |-> "none", snap |-> Absent]
NoLedger == [kind |-> "none", name |-> <<>>, originalPath |-> <<>>,
             backupPath |-> <<>>, deletedAt |-> 0]
NoOpts == [dryRun |-> FALSE, backup |-> "unset", yes |-> FALSE, force |-> FALSE]
\* the command lines tried: every combination of --yes and --force without
\* a backup option, --backup and --no-backup with and without --force --yes,
\* --dry-run alone and with --force --yes
Options ==
  {o \in [dryRun : BOOLEAN, backup : {"true", "false", "unset"},
          yes : BOOLEAN, force : BOOLEAN] :
     /\ o.backup # "unset" => (o.yes = o.force /\ ~o.dryRun)
     /\ o.dryRun => o.yes = o.force}

Snapshot == [fs |-> fs, archives |-> archives, ledger |-> ledger,
             cfgDirs |-> cfgDirs]

(***************************************************************************)
(* delete: resolving and validating the target (status.ts 521-670).        *)
(***************************************************************************)
\* the order in which readdirSync lists the projects of HOME/dev
ScanOrder == <<PA, PB>>

\* findAllProjects(homeDir): the directories below the SEARCH_PATHS that
\* hold a project.yaml, as ProjectInfo records, duplicates removed
FindAllProjects(f) ==
  LET found == SelectSeq(ScanOrder, LAMBDA d : f[d].exists /\ f[d].marker = "yaml")
  IN [i \in 1..Len(found) |-> [name |-> Basename(found[i]), path |-> found[i]]]

\* Array.prototype.find on a sequence of test results: the index of the
\* first element that passes, 0 when there is none
FindFirst(passes) ==
  IF \E i \in 1..Len(passes) : passes[i]
    THEN CHOOSE i \in 1..Len(passes) :
           passes[i] /\ \A j \in 1..(i - 1) : ~passes[j]
    ELSE 0

\* a lookup by name that takes the first project, in scan order, whose name
\* contains the argument
FindByNameScanOrder(projects, pathArg) ==
  FindFirst([i \in 1..Len(projects) |->
               Includes(ToLowerCase(projects[i].name), ToLowerCase(pathArg))])

\* the three lookups by name: exact, then prefix, then substring
FindByName(projects, pathArg) ==
  LET lowerName == ToLowerCase(pathArg)
      lowered == [i \in 1..Len(projects) |-> ToLowerCase(projects[i].name)]
      exact  == FindFirst([i \in 1..Len(projects) |-> lowered[i] = lowerName])
      prefix == FindFirst([i \in 1..Len(projects) |->
                             StartsWith(lowered[i], lowerName)])
      substr == FindFirst([i \in 1..Len(projects) |->
                             Includes(lowered[i], lowerName)])
  IN IF exact # 0 THEN exact ELSE IF prefix # 0 THEN prefix ELSE substr

\* the target of the run: [why, path]. pathArg = <<>> is "no argument" (the
\* picker, in which the user selects entry sel or cancels with sel = 0)
ResolveTarget(f, c, pathArg, sel) ==
  LET projects == FindAllProjects(f) IN
  IF pathArg = <<>>
    THEN IF projects = <<>> THEN [why |-> "no_projects", path |-> <<>>]
         ELSE IF sel = 0 THEN [why |-> "select_cancelled", path |-> <<>>]
         ELSE [why |-> "ok", path |-> projects[sel].path]
  ELSE IF ExistsIn(f, c, pathArg) THEN [why |-> "ok", path |-> pathArg]
  ELSE IF ExistsIn(f, c, PathJoin(c, pathArg))
    THEN [why |-> "ok", path |-> PathJoin(c, pathArg)]
  ELSE LET i == FindByName(projects, pathArg) IN
         IF i = 0 THEN [why |-> "not_found", path |-> <<>>]
         ELSE [why |-> "ok", path |-> projects[i].path]

\* project.yaml, or at least a package.json
IsValidProject(f, c, p) == HasProjectYaml(f, c, p) \/ HasPackageJson(f, c, p)

\* "You are inside this project directory"
InsideProject(c, p) ==
  LET normalizedCwd == ReplaceBackslashes(ToLowerCase(c))
      normalizedProjectPath == ReplaceBackslashes(ToLowerCase(p))
  IN \/ normalizedCwd = normalizedProjectPath
     \/ StartsWith(normalizedCwd, normalizedProjectPath \o <<"/">>)

\* process.env.HOME is HOME and process.env.USERPROFILE is unset
DangerousPaths ==
  { HOME,
    <<"C", ":", "\\">>,
    <<"C", ":", "\\", "W", "i", "n", "d", "o", "w", "s">>,
    <<"C", ":", "\\", "P", "r", "o", "g", "r", "a", "m", " ", "F", "i", "l", "e", "s">>,
    <<"/">>,
    <<"/", "h", "o", "m", "e">>,
    <<"/", "u", "s", "r">> }

IsDangerous(p) == \E dp \in DangerousPaths : ToLowerCase(p) = ToLowerCase(dp)

\* options.force && options.yes
SkipsConfirmation(o) == o.force /\ o.yes

\* a confirmation that compares without regard to case
ValidateConfirmAnyCase(value, name) == ToLowerCase(value) = ToLowerCase(name)

\* the validate callback of the type-to-confirm prompt: TRUE when accepted
ValidateConfirm(value, name) == value = name

\* a run that never asks about the backup
NeverAsksAboutBackup(o) == FALSE

\* the backup prompt is shown
NeedsBackupPrompt(o) == o.backup = "unset" /\ ~o.yes

\* where the run goes once the confirmation is behind it
AfterConfirm(o) ==
  IF NeedsBackupPrompt(o) THEN "backup_prompt"
  ELSE IF o.backup = "true" THEN "backup" ELSE "rm_node_modules"

\* a head of the handler in which --force --yes skips the dry-run stop too
VerdictForceFirst(f, c, o, t) ==
  IF t.why # "ok" THEN t.why
  ELSE IF ~IsValidProject(f, c, t.path) THEN "invalid_project"
  ELSE IF InsideProject(c, t.path) THEN "inside_project"
  ELSE IF IsDangerous(t.path) THEN "protected"
  ELSE IF o.dryRun /\ ~SkipsConfirmation(o) THEN "dry_run"
  ELSE "go"

\* the branch the synchronous head of the handler ends in
Verdict(f, c, o, t) ==
  IF t.why # "ok" THEN t.why
  ELSE IF ~IsValidProject(f, c, t.path) THEN "invalid_project"
  ELSE IF InsideProject(c, t.path) THEN "inside_project"
  ELSE IF IsDangerous(t.path) THEN "protected"
  ELSE IF o.dryRun THEN "dry_run"
  ELSE "go"

(***************************************************************************)
(* Inputs.                                                                 *)
(***************************************************************************)
\* the [path] argument of delete: none, absolute paths, a path with a
\* trailing separator, relative paths, a project name, a name prefix
PathArgs ==
  { <<>>, PA, PB, USR, HOME, PA \o <<"/">>, <<".">>, <<".", ".">>,
    <<"A", "b">>, <<"a">>, <<"b">>, <<"x">> }

\* the working directories a command is started in
Cwds == {ROOT, DEV, PA, PAS}

\* delete then undo: the project by absolute path and by a path relative to
\* the working directory, the commands run in /h/dev and in /
TripPathArgs == {PA, PB, <<"A", "b">>}
TripCwds == {DEV, ROOT}
TripOptions == {o \in Options : o.backup = "true" /\ o.force /\ o.yes}

\* what the user types at the type-to-confirm prompt
TypedInputs ==
  { <<"A", "b">>, <<"A">>, <<"b">>, <<"a", "b">>, <<"A", "B">>, <<".">>, <<>> }

\* the inputs of the runs of Spec, in which commands follow each other:
\* absolute paths from HOME/dev, and four command lines
SeqPathArgs == {PA, PB}
SeqCwds == {DEV}
SeqOptions ==
  {o \in Options : \/ o.yes /\ o.force /\ o.backup # "unset"
                   \/ ~o.yes /\ ~o.force /\ o.backup = "unset"}

ArchiverResults == {"throws", "exit0", "exit1_no_file", "exit1_empty_file"}
ExtractResults == {"mkdir_throws", "spawn_throws", "exit0", "exit1"}

(***************************************************************************)
(* Initial state: three directories with a manifest, nothing deleted yet.  *)
(***************************************************************************)
InitWorld ==
  /\ fs = [d \in Projects |->
             IF d = PA
               THEN [exists |-> TRUE, marker |-> "yaml", nm |-> TRUE,
                     build |-> TRUE, sub |-> TRUE, content |-> 1]
               ELSE [exists |-> TRUE, marker |-> IF d = PB THEN "yaml" ELSE "pkg",
                     nm |-> FALSE, build |-> FALSE, sub |-> FALSE, content |-> 1]]
  /\ archives = [b \in BackupPaths |-> NoFile]
  /\ ledger = NoLedger
  /\ cfgDirs = {}
  /\ clock = 0

InitCmd ==
  /\ runs = 0
  /\ pc = "idle"
  /\ kind = "none"
  /\ cwd = ROOT
  /\ opts = NoOpts
  /\ projectPath = <<>>
  /\ projectName = <<>>
  /\ hasNodeModules = FALSE
  /\ shouldBackup = FALSE
  /\ backupPath = <<>>
  /\ undoInfo = NoLedger
  /\ outcome = "none"
  /\ msgs = {}
  /\ exitCode = 0
  /\ pre = [fs |-> fs, archives |-> archives, ledger |-> ledger,
            cfgDirs |-> cfgDirs]
  /\ typed = <<>>
  /\ archiver = "none"
  /\ extractor = "none"

(***************************************************************************)
(* delete (status.ts 509-862).                                             *)
(***************************************************************************)
\* the handler from its start to the first prompt it waits at, or to its
\* return: target resolution, validation, the two refusals, analysis,
\* --dry-run, --force --yes
DeleteStart(pathArg, o, c, sel) ==
  /\ pc \in {"idle", "done"}
  /\ runs < MaxCmds
  /\ DirExistsIn(fs, c)
  /\ pathArg # <<>> => sel = 0
  /\ sel <= Len(FindAllProjects(fs))
  /\ \E t \in {ResolveTarget(fs, c, pathArg, sel)} :
       \E v \in {Verdict(fs, c, o, t)} :
         /\ projectPath' = t.path
         /\ projectName' = Basename(t.path)
         /\ hasNodeModules' = (v \in {"dry_run", "go"} /\ fs[Resolve(c, t.path)].nm)
         /\ IF v = "go"
              THEN /\ pc' = IF SkipsConfirmation(o) THEN AfterConfirm(o) ELSE "confirm"
                   /\ outcome' = "none"
                   /\ msgs' = IF SkipsConfirmation(o) THEN {"force_mode"} ELSE {}
              ELSE /\ pc' = "done"
                   /\ outcome' = v
                   /\ msgs' = {}
  /\ runs' = runs + 1
  /\ kind' = "delete"
  /\ cwd' = c
  /\ opts' = o
  /\ shouldBackup' = (o.backup = "true")
  /\ backupPath' = <<>>
  /\ undoInfo' = NoLedger
  /\ exitCode' = 0
  /\ pre' = Snapshot
  /\ typed' = <<>>
  /\ archiver' = "none"
  /\ extractor' = "none"
  /\ UNCHANGED worldVars

\* the user submits a string at the type-to-confirm prompt: a rejected
\* string leaves the prompt open
ConfirmSubmit(value) ==
  /\ pc = "confirm"
  /\ typed' = value
  /\ IF ValidateConfirm(value, projectName)
       THEN /\ pc' = AfterConfirm(opts)
            /\ msgs' = msgs
       ELSE /\ pc' = "confirm"
            /\ msgs' = msgs \cup {"please_type_exactly"}
  /\ UNCHANGED <<worldVars, runs, kind, cwd, opts, projectPath, projectName,
                 hasNodeModules, shouldBackup, backupPath, undoInfo, outcome,
                 exitCode, pre, archiver, extractor>>

\* the user cancels the type-to-confirm prompt
ConfirmCancel ==
  /\ pc = "confirm"
  /\ pc' = "done"
  /\ outcome' = "confirm_cancelled"
  /\ UNCHANGED <<worldVars, runs, kind, cwd, opts, projectPath, projectName,
                 hasNodeModules, shouldBackup, backupPath, undoInfo, msgs,
                 exitCode, pre, typed, archiver, extractor>>

\* the answer to "Create a backup before deleting?"
BackupAnswer(ans) ==
  /\ pc = "backup_prompt"
  /\ IF ans = "cancel"
       THEN /\ pc' = "done"
            /\ outcome' = "backup_cancelled"
            /\ shouldBackup' = shouldBackup
       ELSE /\ pc' = IF ans = "yes" THEN "backup" ELSE "rm_node_modules"
            /\ outcome' = outcome
            /\ shouldBackup' = (ans = "yes")
  /\ UNCHANGED <<worldVars, runs, kind, cwd, opts, projectPath, projectName,
                 hasNodeModules, backupPath, undoInfo, msgs, exitCode, pre,
                 typed, archiver, extractor>>

\* `${projectName}-${timestamp}.zip` in the backups directory; the timestamp
\* has a fixed width, so name and second determine the path and back
BackupPathOf(name, now) == <<name, now>>

\* the archive Compress-Archive leaves at bp
ArchiveAfter(res, old, dirState) ==
  CASE res = "exit0" -> [exists |-> TRUE, size |-> "full", snap |-> dirState]
    [] res = "exit1_empty_file" -> [exists |-> TRUE, size |-> "zero", snap |-> Absent]
    [] OTHER -> old

\* what the backup step tells the user
BackupMessage(res, arch) ==
  IF res = "throws" THEN "backup_could_not"
  ELSE IF arch.exists THEN "backup_created" ELSE "backup_may_have_failed"

\* the backup step: mkdirSync(backupDir), the archive path, the archiver
CreateBackup(res) ==
  /\ pc = "backup"
  /\ LET bp == BackupPathOf(projectName, clock)
         d  == Resolve(cwd, projectPath)
         a  == ArchiveAfter(res, archives[bp], fs[d])
     IN /\ backupPath' = bp
        /\ archives' = [archives EXCEPT ![bp] = a]
        /\ msgs' = msgs \cup {BackupMessage(res, a)}
  /\ cfgDirs' = cfgDirs \cup {"devkitx", "backups"}
  /\ archiver' = res
  /\ pc' = "rm_node_modules"
  /\ UNCHANGED <<fs, ledger, clock, runs, kind, cwd, opts, projectPath,
                 projectName, hasNodeModules, shouldBackup, undoInfo, outcome,
                 exitCode, pre, typed, extractor>>

\* a removal block that swallows the exception and goes on to its end
RemovalFailedSilently ==
  /\ pc' = "record_undo"
  /\ outcome' = outcome
  /\ msgs' = msgs
  /\ UNCHANGED <<fs, ledger, cfgDirs>>

\* rmSync threw: the catch of the removal block
RemovalFailed ==
  /\ pc' = "done"
  /\ outcome' = "remove_failed"
  /\ msgs' = msgs \cup {"failed_to_delete"}
  /\ UNCHANGED <<fs, ledger, cfgDirs>>

\* [1/3] node_modules; throws is whether rmSync throws (a locked file)
RemoveNodeModules(throws) ==
  /\ pc = "rm_node_modules"
  /\ LET d == Resolve(cwd, projectPath)
         called == hasNodeModules /\ fs[d].nm
     IN /\ throws => called
        /\ IF throws THEN RemovalFailed
           ELSE /\ fs' = [fs EXCEPT ![d].nm = FALSE]
                /\ pc' = "rm_build"
                /\ UNCHANGED <<ledger, cfgDirs, outcome, msgs>>
  /\ UNCHANGED <<archives, clock, runs, kind, cwd, opts, projectPath,
                 projectName, hasNodeModules, shouldBackup, backupPath,
                 undoInfo, exitCode, pre, typed, archiver, extractor>>

\* [2/3] .next, .turbo, dist, .expo, .convex
RemoveBuildArtifacts(throws) ==
  /\ pc = "rm_build"
  /\ LET d == Resolve(cwd, projectPath) IN
       /\ throws => fs[d].build
       /\ IF throws THEN RemovalFailed
          ELSE /\ fs' = [fs EXCEPT ![d].build = FALSE]
               /\ pc' = "rm_project"
               /\ UNCHANGED <<ledger, cfgDirs, outcome, msgs>>
  /\ UNCHANGED <<archives, clock, runs, kind, cwd, opts, projectPath,
                 projectName, hasNodeModules, shouldBackup, backupPath,
                 undoInfo, exitCode, pre, typed, archiver, extractor>>

\* [3/3] rmSync(projectPath, { recursive: true, force: true })
RemoveProjectFiles(throws) ==
  /\ pc = "rm_project"
  /\ LET d == Resolve(cwd, projectPath) IN
       IF throws THEN RemovalFailed
       ELSE /\ fs' = [fs EXCEPT ![d] = Absent]
            /\ pc' = "record_undo"
            /\ UNCHANGED <<ledger, cfgDirs, outcome, msgs>>
  /\ UNCHANGED <<archives, clock, runs, kind, cwd, opts, projectPath,
                 projectName, hasNodeModules, shouldBackup, backupPath,
                 undoInfo, exitCode, pre, typed, archiver, extractor>>

\* a ledger that keeps the record it already holds
RecordsUndoWhenEmpty(bp, arch) ==
  bp # <<>> /\ arch[bp].exists /\ ledger.kind = "none"

\* backupPath && existsSync(backupPath)
RecordsUndo(bp, arch) == bp # <<>> /\ arch[bp].exists

\* the DeletedProject written to UNDO_FILE
UndoRecord(name, path, bp, now) ==
  [kind |-> "record", name |-> name, originalPath |-> path, backupPath |-> bp,
   deletedAt |-> now]

\* "To restore this project, run: dx undo"
AdvisesUndo(bp) == bp # <<>>

\* the end of the removal block: the undo record, the success message, the
\* advice
RecordUndo ==
  /\ pc = "record_undo"
  /\ IF RecordsUndo(backupPath, archives)
       THEN /\ ledger' = UndoRecord(projectName, projectPath, backupPath, clock)
            /\ cfgDirs' = cfgDirs \cup {"devkitx"}
       ELSE UNCHANGED <<ledger, cfgDirs>>
  /\ msgs' = msgs \cup {"deleted_ok"}
                  \cup (IF AdvisesUndo(backupPath) THEN {"undo_advice"} ELSE {})
  /\ pc' = "done"
  /\ outcome' = "deleted"
  /\ UNCHANGED <<fs, archives, clock, runs, kind, cwd, opts, projectPath,
                 projectName, hasNodeModules, shouldBackup, backupPath,
                 undoInfo, exitCode, pre, typed, archiver, extractor>>

(***************************************************************************)
(* undo (status.ts 865-960).                                               *)
(***************************************************************************)
\* an undo that does not look at the original path
UndoVerdictNoPathCheck(f, arch, led, c) ==
  IF led.kind = "none" THEN "no_record"
  ELSE IF led.kind = "corrupt" THEN "unreadable"
  ELSE IF ~arch[led.backupPath].exists THEN "backup_missing"
  ELSE "go"

\* the branch the head of the handler ends in
UndoVerdict(f, arch, led, c) ==
  IF led.kind = "none" THEN "no_record"
  ELSE IF led.kind = "corrupt" THEN "unreadable"
  ELSE IF ~arch[led.backupPath].exists THEN "backup_missing"
  ELSE IF ExistsIn(f, c, led.originalPath) THEN "path_exists"
  ELSE "go"

\* one text for every branch undo returns in
UndoErrorGeneric(v) == "Could not restore"

\* the ui.error text of the branch undo returns in
UndoError(v) ==
  CASE v = "no_record" -> "No recently deleted project to restore"
    [] v = "unreadable" -> "Could not read undo information"
    [] v = "backup_missing" -> "Backup file no longer exists"
    [] v = "path_exists" -> "Original location already exists!"

\* the handler up to the restore prompt, or to its return
UndoStart(c) ==
  /\ pc \in {"idle", "done"}
  /\ runs < MaxCmds
  /\ DirExistsIn(fs, c)
  /\ LET v == UndoVerdict(fs, archives, ledger, c) IN
       /\ undoInfo' = IF ledger.kind = "record" THEN ledger ELSE NoLedger
       /\ pc' = IF v = "go" THEN "undo_confirm" ELSE "done"
       /\ outcome' = IF v = "go" THEN "none" ELSE v
  /\ runs' = runs + 1
  /\ kind' = "undo"
  /\ cwd' = c
  /\ opts' = NoOpts
  /\ projectPath' = <<>>
  /\ projectName' = <<>>
  /\ hasNodeModules' = FALSE
  /\ shouldBackup' = FALSE
  /\ backupPath' = <<>>
  /\ msgs' = IF UndoVerdict(fs, archives, ledger, c) = "go" THEN {}
             ELSE {UndoError(UndoVerdict(fs, archives, ledger, c))}
  /\ exitCode' = 0
  /\ pre' = Snapshot
  /\ typed' = <<>>
  /\ archiver' = "none"
  /\ extractor' = "none"
  /\ UNCHANGED worldVars

\* the answer to `Restore "<name>" to original location?`
UndoAnswer(ans) ==
  /\ pc = "undo_confirm"
  /\ IF ans = "yes"
       THEN pc' = "restore" /\ outcome' = outcome
       ELSE pc' = "done" /\ outcome' = "restore_cancelled"
  /\ UNCHANGED <<worldVars, runs, kind, cwd, opts, projectPath, projectName,
                 hasNodeModules, shouldBackup, backupPath, undoInfo, msgs,
                 exitCode, pre, typed, archiver, extractor>>

\* the directory at the original path after mkdirSync and Expand-Archive
RestoredDir(res, arch) ==
  IF res = "exit0" THEN arch.snap
  ELSE [Absent EXCEPT !.exists = TRUE]

\* the try block reaches rmSync(UNDO_FILE): every statement before it
\* returned without throwing
RestoreCompletes(res) == res \in {"exit0", "exit1"}

\* the restore: mkdirSync, Expand-Archive, rmSync(UNDO_FILE)
Restore(res) ==
  /\ pc = "restore"
  /\ res = "exit0" => archives[undoInfo.backupPath].size = "full"
  /\ LET d == Resolve(cwd, undoInfo.originalPath) IN
       fs' = IF res # "mkdir_throws" /\ d \in Projects
               THEN [fs EXCEPT ![d] = RestoredDir(res, archives[undoInfo.backupPath])]
               ELSE fs
  /\ extractor' = res
  /\ IF RestoreCompletes(res)
       THEN /\ ledger' = NoLedger
            /\ outcome' = "restored"
            /\ msgs' = msgs \cup {"restored_ok"}
       ELSE /\ ledger' = ledger
            /\ outcome' = "restore_failed"
            /\ msgs' = msgs \cup {"failed_to_restore"}
  /\ pc' = "done"
  /\ UNCHANGED <<archives, cfgDirs, clock, runs, kind, cwd, opts, projectPath,
                 projectName, hasNodeModules, shouldBackup, backupPath,
                 undoInfo, exitCode, pre, typed, archiver>>

(***************************************************************************)
(* The environment, between two commands.                                  *)
(***************************************************************************)
\* the command that ran last has exited and the world moves on: of the
\* command nothing is left but the count of runs
CmdGone ==
  /\ pc' = "idle"
  /\ kind' = "none"
  /\ cwd' = ROOT
  /\ opts' = NoOpts
  /\ projectPath' = <<>>
  /\ projectName' = <<>>
  /\ hasNodeModules' = FALSE
  /\ shouldBackup' = FALSE
  /\ backupPath' = <<>>
  /\ undoInfo' = NoLedger
  /\ outcome' = "none"
  /\ msgs' = {}
  /\ exitCode' = 0
  /\ pre' = [fs |-> fs', archives |-> archives', ledger |-> ledger',
             cfgDirs |-> cfgDirs']
  /\ typed' = <<>>
  /\ archiver' = "none"
  /\ extractor' = "none"
  /\ UNCHANGED runs

\* a second passes
Tick ==
  /\ pc \in {"idle", "done"}
  /\ clock < runs
  /\ clock' = clock + 1
  /\ UNCHANGED <<fs, archives, ledger, cfgDirs>>
  /\ CmdGone

\* the user creates a project again where one was deleted
Recreate(d) ==
  /\ pc \in {"idle", "done"}
  /\ ~fs[d].exists
  /\ fs' = [fs EXCEPT ![d] = [exists |-> TRUE, marker |-> "yaml", nm |-> FALSE,
                              build |-> FALSE, sub |-> FALSE, content |-> 2]]
  /\ UNCHANGED <<archives, ledger, cfgDirs, clock>>
  /\ CmdGone

\* a backup archive is removed by hand
LoseArchive(bp) ==
  /\ pc \in {"idle", "done"}
  /\ archives[bp].exists
  /\ archives' = [archives EXCEPT ![bp] = NoFile]
  /\ UNCHANGED <<fs, ledger, cfgDirs, clock>>
  /\ CmdGone

\* the ledger file is overwritten with text that is not JSON
CorruptLedger ==
  /\ pc \in {"idle", "done"}
  /\ ledger.kind = "record"
  /\ ledger' = [NoLedger EXCEPT !.kind = "corrupt"]
  /\ UNCHANGED <<fs, archives, cfgDirs, clock>>
  /\ CmdGone

(***************************************************************************)
(* Properties of delete and undo.                                          *)
(***************************************************************************)
\* the directory the target of the running delete denotes
TargetDir == Resolve(cwd, projectPath)

\* directory a is d or an ancestor of d
IsSelfOrAncestor(a, d) ==
  LET sa == Segments(a)
      sd == Segments(d)
  IN Len(sa) <= Len(sd) /\ SubSeq(sd, 1, Len(sa)) = sa

\* the protected directories that exist in the modelled file system
ProtectedDirs == {ROOT, HOME, USR}

\* nothing on disk differs from what the running command found
Untouched == Snapshot = pre

RefusalOutcomes == {"invalid_project", "inside_project", "protected"}

\* C1: a delete whose target is the working directory, an ancestor of it or
\* a protected directory has ended in a refusal, whatever --force and --yes
\* are, and has changed nothing on disk.
C1_RefusesCwdAncestorProtected ==
  (/\ kind = "delete"
   /\ projectPath # <<>>
   /\ \/ IsSelfOrAncestor(TargetDir, cwd)
      \/ TargetDir \in ProtectedDirs)
    => /\ pc = "done"
       /\ outcome \in RefusalOutcomes
       /\ Untouched

\* the running delete is past its confirmation stage
PastConfirmation ==
  /\ kind = "delete"
  /\ \/ pc \in {"backup_prompt", "backup", "rm_node_modules", "rm_build",
                "rm_project", "record_undo"}
     \/ pc = "done" /\ outcome \in {"backup_cancelled", "remove_failed", "deleted"}

\* C2: without both --force and --yes, a delete is past its confirmation
\* only when the string typed last equals the project name character for
\* character; after a rejected string the prompt is still open; and nothing
\* on disk changes before the confirmation is passed.
C2_TypeToConfirmExact ==
  /\ (PastConfirmation /\ ~(opts.force /\ opts.yes)) => typed = projectName
  /\ (kind = "delete" /\ "please_type_exactly" \in msgs /\ typed # projectName)
       => pc \in {"confirm", "done"} /\ outcome \in {"none", "confirm_cancelled"}
  /\ (kind = "delete" /\ ~PastConfirmation) => Untouched

\* a delete started with --yes alone went through after a different-case
\* spelling of the name had been rejected
C2_Witness ==
  /\ kind = "delete" /\ pc = "done" /\ outcome = "deleted"
  /\ opts.yes /\ ~opts.force
  /\ "please_type_exactly" \in msgs
  /\ typed = projectName
  /\ projectName = <<"A", "b">>

\* C3: an undo started while the recorded original path exists has ended
\* without an extraction, and the directory, the archives and the ledger are
\* what they were.
C3_UndoKeepsExistingPath ==
  (/\ kind = "undo"
   /\ pre.ledger.kind = "record"
   /\ ExistsIn(pre.fs, cwd, pre.ledger.originalPath))
    => /\ pc = "done"
       /\ outcome \in {"path_exists", "backup_missing"}
       /\ pre.archives[pre.ledger.backupPath].exists => outcome = "path_exists"
       /\ extractor = "none"
       /\ Untouched

\* undo found the project created again at the path of the deleted one
C3_Witness ==
  /\ kind = "undo" /\ pc = "done" /\ outcome = "path_exists"
  /\ ledger.originalPath = PA
  /\ fs[PA].exists /\ fs[PA].content = 2
  /\ archives[ledger.backupPath].size = "full"

\* C16: an undo started with no record, with a record whose archive is
\* missing, or with a record whose original path exists, has ended with the
\* error text of that condition, three different texts; in these cases and
\* when the ledger cannot be parsed it has ended without an extraction and
\* with the directories, the archives and the ledger as they were.
C16_UndoReportsEachFailure ==
  kind = "undo" =>
    /\ pre.ledger.kind = "none"
         => msgs = {"No recently deleted project to restore"}
    /\ (pre.ledger.kind = "record"
        /\ ~pre.archives[pre.ledger.backupPath].exists)
         => msgs = {"Backup file no longer exists"}
    /\ (/\ pre.ledger.kind = "record"
        /\ pre.archives[pre.ledger.backupPath].exists
        /\ ExistsIn(pre.fs, cwd, pre.ledger.originalPath))
         => msgs = {"Original location already exists!"}
    /\ (\/ pre.ledger.kind \in {"none", "corrupt"}
        \/ ~pre.archives[pre.ledger.backupPath].exists
        \/ ExistsIn(pre.fs, cwd, pre.ledger.originalPath))
         => pc = "done" /\ extractor = "none" /\ Untouched

\* undo found the archive of its record removed since the delete
C16_Witness ==
  /\ kind = "undo" /\ pc = "done" /\ outcome = "backup_missing"
  /\ ledger.kind = "record"
  /\ ~archives[ledger.backupPath].exists
  /\ ~fs[ledger.originalPath].exists

\* C17: a delete that stopped at --dry-run, or that the user cancelled at the
\* type-to-confirm prompt or at the backup prompt, has left the directories,
\* the backups and the ledger as they were; and a delete given --dry-run has
\* stopped before any prompt, whatever the other options.
C17_DryRunAndCancelTouchNothing ==
  kind = "delete" =>
    /\ outcome \in {"dry_run", "confirm_cancelled", "backup_cancelled"}
         => pc = "done" /\ archiver = "none" /\ Untouched
    /\ opts.dryRun => pc = "done" /\ typed = <<>> /\ Untouched

\* --dry-run --force --yes on a valid project
C17_Witness ==
  /\ kind = "delete" /\ pc = "done" /\ outcome = "dry_run"
  /\ opts.dryRun /\ opts.force /\ opts.yes
  /\ fs[projectPath].exists

\* the archiver threw, exited with a status other than 0, or left no archive
BackupFailed == archiver \in {"throws", "exit1_no_file", "exit1_empty_file"}

\* C18: in a delete whose backup step failed the user has been shown a warning
\* about the backup, and the run has gone on to the removal of the project.
C18_BackupFailureWarnsAndProceeds ==
  (kind = "delete" /\ BackupFailed)
    => /\ msgs \cap {"backup_could_not", "backup_may_have_failed"} # {}
       /\ \/ pc \in {"rm_node_modules", "rm_build", "rm_project", "record_undo"}
          \/ pc = "done" /\ outcome \in {"deleted", "remove_failed"}

\* C20: a confirmed undo whose extraction succeeded, of a record whose
\* archive is a successful backup, has recreated the directory of the deleted
\* project at its original path, with what it held when the backup was taken.
C20_DeleteThenUndoRoundTrip ==
  (/\ kind = "undo" /\ pc = "done" /\ extractor = "exit0"
   /\ pre.archives[undoInfo.backupPath].size = "full")
    => \A d \in {PA, PB} :
         undoInfo.name = Basename(d)
           => fs[d].exists /\ fs[d] = archives[undoInfo.backupPath].snap

\* the directory a delete run works on
Doomed == fs[Resolve(cwd, projectPath)]
DoomedBefore == pre.fs[Resolve(cwd, projectPath)]

\* what is left of the directory after no step, after step 1, after step 2
AfterSteps ==
  <<DoomedBefore,
    [DoomedBefore EXCEPT !.nm = FALSE],
    [DoomedBefore EXCEPT !.nm = FALSE, !.build = FALSE]>>

\* C21: the removal takes node_modules, then the build artifacts, then the
\* rest; success is reported and the undo record written only once the
\* directory is gone; and after a failed step the directory is what the steps
\* before it left, no success is reported and the ledger is what it was.
C21_RemovalOrderAndFailure ==
  (kind = "delete" /\ projectPath # <<>>) =>
    /\ pc = "rm_node_modules" => Doomed = AfterSteps[1]
    /\ pc = "rm_build" => Doomed = AfterSteps[2]
    /\ pc = "rm_project" => Doomed = AfterSteps[3]
    /\ ("deleted_ok" \in msgs \/ ledger # pre.ledger)
         => pc = "done" /\ outcome = "deleted" /\ ~Doomed.exists
    /\ outcome = "remove_failed"
         => /\ pc = "done"
            /\ \E k \in 1..3 : Doomed = AfterSteps[k]
            /\ "deleted_ok" \notin msgs /\ "undo_advice" \notin msgs
            /\ ledger = pre.ledger

\* the removal of the build artifacts failed after a successful backup:
\* node_modules is gone, the rest is there, no record
C21_Witness ==
  /\ kind = "delete" /\ outcome = "remove_failed" /\ archiver = "exit0"
  /\ DoomedBefore.nm /\ ~Doomed.nm /\ Doomed.build /\ Doomed.exists
  /\ ledger.kind = "none"

\* C22: a delete whose target is spelled otherwise than as the absolute path
\* of its directory (relative, or with a trailing separator) and is the
\* working directory or an ancestor of it has ended as the run given the
\* absolute path ends, in a refusal, and has changed nothing on disk.
C22_RefusalWhateverTheSpelling ==
  (/\ kind = "delete"
   /\ projectPath # <<>>
   /\ projectPath # TargetDir
   /\ IsSelfOrAncestor(TargetDir, cwd))
    => /\ pc = "done"
       /\ outcome = Verdict(pre.fs, cwd, opts, [why |-> "ok", path |-> TargetDir])
       /\ outcome \in RefusalOutcomes
       /\ Untouched

\* C23: a delete that has told the user to restore with `dx undo` has left in
\* the ledger the record of the project it deleted, with an archive that
\* exists.
C23_UndoAdviceMatchesLedger ==
  (kind = "delete" /\ "undo_advice" \in msgs)
    => /\ ledger.kind = "record"
       /\ ledger.name = projectName
       /\ ledger.originalPath = projectPath
       /\ ledger.backupPath = backupPath
       /\ archives[ledger.backupPath].exists

\* C24: after an undo that failed during the restore the recorded original
\* path does not exist, and an undo run again is not stopped by the check of
\* the original location.
C24_FailedRestoreLeavesNoDirectory ==
  (kind = "undo" /\ pc = "done" /\ outcome = "restore_failed")
    => /\ ~ExistsIn(fs, cwd, undoInfo.originalPath)
       /\ UndoVerdict(fs, archives, ledger, cwd) # "path_exists"

\* a step of delete that leaves the confirmation stage for the backup or
\* the removal without passing the backup prompt
SkipsBackupPrompt ==
  /\ pc \in {"idle", "done", "confirm"}
  /\ kind' = "delete"
  /\ pc' \in {"backup", "rm_node_modules"}

\* C27 as stated: a delete goes from its confirmation to the backup or to the
\* removal without the backup prompt only when --backup or --no-backup is
\* given.
C27_PromptUnlessBackupOption ==
  [][SkipsBackupPrompt => opts'.backup # "unset"]_vars

\* C27: a delete goes from its confirmation to the backup or to the removal
\* without the backup prompt only when --backup, --no-backup or --yes is
\* given.
C27_PromptUnlessBackupOptionOrYes ==
  [][SkipsBackupPrompt => (opts'.backup # "unset" \/ opts'.yes)]_vars

\* a delete without any option, confirmed by the typed name, is at the backup
\* prompt with the project as it was
C27_Witness ==
  /\ kind = "delete" /\ pc = "backup_prompt"
  /\ opts.backup = "unset" /\ ~opts.yes /\ ~opts.force
  /\ typed = projectName
  /\ Untouched

\* C28: the backup step of a delete run never uses an archive path at which
\* another run has left its archive.
C28_BackupPathsNeverCollide ==
  [][(kind = "delete" /\ pc = "backup" /\ pc' # "backup")
       => ~archives[backupPath'].exists]_vars

\* C4: an undo that removed the ledger record has restored the project: the
\* extraction ended with exit status 0.
C4_LedgerRemovedOnlyAfterRestore ==
  (kind = "undo" /\ pc = "done" /\ ledger # pre.ledger) => extractor = "exit0"

\* C5: the ledger is one record or none, and a delete that ended with a
\* successful backup leaves its own record there, whatever record was there.
C5_LedgerHoldsLastDeletion ==
  /\ ledger.kind \in {"none", "record", "corrupt"}
  /\ (kind = "delete" /\ pc = "done" /\ outcome = "deleted" /\ archiver = "exit0")
       => /\ ledger = UndoRecord(projectName, projectPath, backupPath, clock)
          /\ UndoVerdict(fs, archives, ledger, cwd) = "go"
               => ledger.originalPath = projectPath

\* project b was deleted with a backup while the ledger held the record of
\* project Ab, whose archive is still there
C5_Witness ==
  /\ kind = "delete" /\ pc = "done" /\ outcome = "deleted" /\ archiver = "exit0"
  /\ pre.ledger.kind = "record" /\ pre.ledger.originalPath = PA
  /\ archives[pre.ledger.backupPath].size = "full"
  /\ ledger.originalPath = PB /\ ledger.name = <<"b">>
  /\ ledger.backupPath = backupPath

\* C6: a delete that wrote an undo record had a successful backup: the
\* archiver ended with exit status 0 and left a non-empty archive.
C6_UndoRecordOnlyAfterBackup ==
  (kind = "delete" /\ ledger # pre.ledger)
    => archiver = "exit0" /\ archives[backupPath].size = "full"

\* the branches in which a command has failed
FailureOutcomes ==
  {"not_found", "invalid_project", "inside_project", "protected",
   "remove_failed", "no_record", "unreadable", "backup_missing", "path_exists",
   "restore_failed"}

\* C10: a finished delete or undo has exit status 1 when it ended in a
\* failure branch and 0 otherwise.
C10_ExitStatus ==
  (kind # "none" /\ pc = "done")
    => exitCode = IF outcome \in FailureOutcomes THEN 1 ELSE 0

(***************************************************************************)
(* The installer (ralph.ts 1545-1882, 2187-2211).  A script text is a      *)
(* sequence of pieces; every piece stands for one fixed substring of the   *)
(* real text, cut where the anchors, replacements and markers of the seven *)
(* patches begin and end, so that includes and replace on pieces agree     *)
(* with includes and replace on characters.  "set -euo pipefail" is cut    *)
(* before its last letter and opencodeNewCmd after its first, because the  *)
(* one ends with the letter the other begins with.                         *)
(***************************************************************************)
NL == "\n"
\* the line `OPENCODE_PERMISSION='{"*":"allow"}' opencode run \`, which the
\* anchors of patches 4 and 5 share
opencodeRun == "OPENCODE_PERMISSION opencode run"

aiEngineLine == <<"AI_ENGINE=claude">>
opencodeModelLine == <<"OPENCODE_MODEL=  # Model for OpenCode">>
qwenHelpLine == <<"  --qwen  Use Qwen-Code">>
modelHelpLine == <<"  --model MODEL  Model for OpenCode">>
qwenCaseBlock == <<"--qwen) AI_ENGINE=qwen shift ;;", "--dry-run)">>
modelCaseBlock ==
  <<"--qwen) AI_ENGINE=qwen shift ;;", "--model) ", "OPENCODE_MODEL=${2:-}",
    " shift 2 ;;", "--dry-run)">>
opencodeOldCmd == <<opencodeRun, " --format json $prompt (8)">>
opencodeNewCmd ==
  <<"l", "ocal opencode_args if fi ", opencodeRun, " $opencode_args $prompt (8)">>
parallelOldBlock == <<"( cd $worktree_dir ", opencodeRun, " --format json $prompt ) (12)">>
parallelNewBlock ==
  <<"( cd $worktree_dir ", "# OpenCode parallel execution with model",
    " local opencode_args if fi ", opencodeRun, " $opencode_args $prompt ) (12)">>
setPipefail == <<"set -euo pipefai", "l">>
setPipefailDisabled == <<"# ", "set -euo pipefai", "l", "  # Disabled for MSYS2">>
dryRunLine == <<"DRY_RUN=false">>
maxIterLine == <<"MAX_ITERATIONS=0">>
pathBlock ==
  <<"DRY_RUN=false", NL, "MAX_ITERATIONS=0", " # Windows: if -f $HOME/",
    ".ralphy/yq.ps1", " then export PATH fi">>

PatchIds == 1..7

\* the text whose presence makes a step log "Skipped ... (already applied)"
Marker(k) ==
  CASE k = 1 -> opencodeModelLine
    [] k = 2 -> modelHelpLine
    [] k = 3 -> <<"OPENCODE_MODEL=${2:-}">>
    [] k = 4 -> opencodeNewCmd
    [] k = 5 -> <<"# OpenCode parallel execution with model">>
    [] k = 6 -> <<"# ", "set -euo pipefai", "l">>
    [] k = 7 -> <<".ralphy/yq.ps1">>

\* the texts a step looks for before it patches
Anchors(k) ==
  CASE k = 1 -> {aiEngineLine}
    [] k = 2 -> {qwenHelpLine}
    [] k = 3 -> {qwenCaseBlock}
    [] k = 4 -> {opencodeOldCmd}
    [] k = 5 -> {parallelOldBlock}
    [] k = 6 -> {setPipefail}
    [] k = 7 -> {dryRunLine, maxIterLine}

\* the first argument of script.replace
Target(k) ==
  CASE k = 1 -> aiEngineLine
    [] k = 2 -> qwenHelpLine
    [] k = 3 -> qwenCaseBlock
    [] k = 4 -> opencodeOldCmd
    [] k = 5 -> parallelOldBlock
    [] k = 6 -> setPipefail
    [] k = 7 -> dryRunLine \o <<NL>> \o maxIterLine

\* the second argument of script.replace
Replacement(k) ==
  CASE k = 1 -> aiEngineLine \o <<NL>> \o opencodeModelLine
    [] k = 2 -> qwenHelpLine \o <<NL>> \o modelHelpLine
    [] k = 3 -> modelCaseBlock
    [] k = 4 -> opencodeNewCmd
    [] k = 5 -> parallelNewBlock
    [] k = 6 -> setPipefailDisabled
    [] k = 7 -> pathBlock

AlreadyApplied(k, text) == Includes(text, Marker(k))
AnchorFound(k, text) == \A a \in Anchors(k) : Includes(text, a)

\* one patch step on text: what it logs and the text it leaves.  A step
\* that throws leaves the text as it was
PatchStep(k, text) ==
  IF AlreadyApplied(k, text) THEN [branch |-> "skipped", text |-> text]
  ELSE IF AnchorFound(k, text)
    THEN LET patched == ReplaceFirst(text, Target(k), Replacement(k)) IN
           IF Len(patched) > Len(text)
             THEN [branch |-> "patched", text |-> patched]
             ELSE [branch |-> "patch_failed", text |-> text]
    ELSE [branch |-> "anchor_missing", text |-> text]

Threw(branch) == branch \in {"patch_failed", "anchor_missing"}

\* the patch whose step comes after the steps logged so far
NextPatch(log) == Len(log) + 1

RECURSIVE PatchFrom(_, _, _)
\* patches k..7 in order on text, stopping at the first that throws
PatchFrom(k, text, log) ==
  IF k > 7 THEN [ok |-> TRUE, text |-> text, log |-> log]
  ELSE LET r == PatchStep(k, text) IN
         IF Threw(r.branch)
           THEN [ok |-> FALSE, text |-> text, log |-> Append(log, r.branch)]
           ELSE PatchFrom(k + 1, r.text, Append(log, r.branch))

\* the whole patch sequence on a text
PatchSequence(text) == PatchFrom(1, text, <<>>)

(***************************************************************************)
(* The upstream script: for each patch, what its region of the script      *)
(* holds.  "old": the text the patch replaces; "new": the replacement;     *)
(* "none": neither; "mark": only the marker; "apart": both lines of patch  *)
(* 7 but not next to each other; "glued": for patch 6, the strict-mode     *)
(* line directly followed by the rest of opencodeNewCmd.                   *)
(***************************************************************************)
Variants(k) ==
  {"old", "new", "none"}
    \cup (IF k = 5 THEN {"mark"} ELSE {})
    \cup (IF k = 6 THEN {"glued"} ELSE {})
    \cup (IF k = 7 THEN {"apart"} ELSE {})

Upstreams == {u \in [PatchIds -> {"old", "new", "none", "mark", "glued", "apart"}] :
                \A k \in PatchIds : u[k] \in Variants(k)}

Region(k, v) ==
  CASE v = "old" -> Target(k)
    [] v = "new" -> Replacement(k)
    [] v = "mark" -> Marker(k)
    [] v = "glued" -> setPipefail \o Tail(opencodeNewCmd)
    [] v = "apart" -> dryRunLine \o <<NL, NL>> \o maxIterLine
    [] OTHER -> <<>>

RECURSIVE RegionsFrom(_, _)
RegionsFrom(u, k) ==
  IF k > 7 THEN <<>> ELSE Region(k, u[k]) \o <<NL>> \o RegionsFrom(u, k + 1)

\* the text of the upstream script
UpstreamText(u) == <<"#!/usr/bin/env bash", NL>> \o RegionsFrom(u, 1)

(***************************************************************************)
(* `ralph install`.                                                        *)
(***************************************************************************)
FetchResults == {"ok", "http_error", "network_error"}

\* the files installRalphy writes after ralphy.sh
WrapperFiles == {"ralphy.cmd"}
LauncherFiles == {"yq.ps1", "yq.cmd", "yq.bat", "ralphy-launcher.bat",
                  "ralphy-launcher.vbs"}

\* the status the process of `ralph install` ends with: process.exit(1) in
\* the catch, a normal return otherwise
InstallExitCode(threw) == IF threw THEN 1 ELSE 0

InstallIdle ==
  /\ script = <<>>
  /\ patchLog = <<>>
  /\ ralphyFile = <<>>
  /\ auxFiles = {}
  /\ ipc = "idle"
  /\ installs = 0
  /\ response = "none"
  /\ downloads = 0
  /\ fileBefore = <<>>
  /\ installExit = 0

\* the command starts: RALPHY_DIR is made, ralphy.sh is fetched
Download(res) ==
  /\ ipc \in {"idle", "exited"}
  /\ installs < MaxInstalls
  /\ installs' = installs + 1
  /\ response' = res
  /\ downloads' = 1
  /\ fileBefore' = ralphyFile
  /\ patchLog' = <<>>
  /\ IF res = "ok"
       THEN /\ script' = UpstreamText(upstream)
            /\ ipc' = "patch"
            /\ installExit' = installExit
       ELSE /\ script' = <<>>
            /\ ipc' = "exited"
            /\ installExit' = InstallExitCode(TRUE)
  /\ UNCHANGED <<upstream, ralphyFile, auxFiles, worldVars, cmdVars>>

\* the next patch step
ApplyPatch ==
  /\ ipc = "patch"
  /\ LET k == NextPatch(patchLog)
         r == PatchStep(k, script)
     IN /\ patchLog' = Append(patchLog, [patch |-> k, branch |-> r.branch])
        /\ script' = r.text
        /\ IF Threw(r.branch)
             THEN ipc' = "exited" /\ installExit' = InstallExitCode(TRUE)
             ELSE /\ ipc' = IF k = 7 THEN "write" ELSE "patch"
                  /\ installExit' = installExit
  /\ UNCHANGED <<upstream, ralphyFile, auxFiles, installs, response, downloads,
                 fileBefore, worldVars, cmdVars>>

\* await Bun.write(RALPHY_SCRIPT, script)
WriteScript ==
  /\ ipc = "write"
  /\ ralphyFile' = script
  /\ ipc' = "aux"
  /\ UNCHANGED <<upstream, script, patchLog, auxFiles, installs, response,
                 downloads, fileBefore, installExit, worldVars, cmdVars>>

\* ralphy.cmd, then yq.ps1 (which throws when the bundled file is missing),
\* the yq wrappers and the launchers; the command returns
InstallWrappers(bundled) ==
  /\ ipc = "aux"
  /\ auxFiles' = auxFiles \cup WrapperFiles
                   \cup (IF bundled THEN LauncherFiles ELSE {})
  /\ ipc' = "exited"
  /\ installExit' = InstallExitCode(~bundled)
  /\ UNCHANGED <<upstream, script, patchLog, ralphyFile, installs, response,
                 downloads, fileBefore, worldVars, cmdVars>>

(***************************************************************************)
(* Properties of the installer.                                            *)
(***************************************************************************)
\* the full replacement text of patch k is in text
ReplacementPresent(k, text) == Includes(text, Replacement(k))

\* patch k finds neither its anchor nor its replacement in text
AnchorMissing(k, text) == ~AnchorFound(k, text) /\ ~ReplacementPresent(k, text)

\* the first patch with neither anchor nor replacement in text, 0 when every
\* patch has one of them
FirstMissing(text) ==
  IF \E k \in PatchIds : AnchorMissing(k, text)
    THEN CHOOSE k \in PatchIds :
           AnchorMissing(k, text) /\ \A j \in 1..(k - 1) : ~AnchorMissing(j, text)
    ELSE 0

\* the patch steps of this run are over
PatchingOver ==
  /\ response = "ok"
  /\ ipc \in {"write", "aux", "exited"}

\* all seven steps of this run went through
SequenceCompleted ==
  /\ PatchingOver
  /\ Len(patchLog) = 7
  /\ \A i \in 1..7 : ~Threw(patchLog[i].branch)

\* C7: the patch steps are logged in the order 1..7, and on a script in which
\* some patch has neither anchor nor replacement the run has stopped at the
\* first such patch: the steps before it went through, none after it was
\* tried, and ralphy.sh is what it was before the run.
C7_AbortsAtFirstMissingAnchor ==
  /\ \A i \in 1..Len(patchLog) : patchLog[i].patch = i
  /\ PatchingOver =>
       \E m \in {FirstMissing(UpstreamText(upstream))} :
         m # 0 =>
           /\ Len(patchLog) = m
           /\ \A i \in 1..(m - 1) : patchLog[i].branch \in {"patched", "skipped"}
           /\ patchLog[m].branch = "anchor_missing"
           /\ ipc = "exited"
           /\ ralphyFile = fileBefore

\* C8: when the seven steps went through, the sequence applied to the text
\* they left goes through as well, leaves that text as it is and takes the
\* "already applied" branch in every step.
C8_PatchSequenceIdempotent ==
  SequenceCompleted =>
    \E r \in {PatchSequence(script)} :
      /\ r.ok
      /\ r.text = script
      /\ r.log = [i \in 1..7 |-> "skipped"]

\* C9: a finished `ralph install` has exit status 0 only if ralphy.sh holds
\* the text of this run with the replacement of every patch in it, and has
\* exit status 1 after one fetch when the download failed or some patch has
\* neither anchor nor replacement in the downloaded script.
C9_InstallExitStatus ==
  ipc = "exited" =>
    /\ installExit \in {0, 1}
    /\ downloads = 1
    /\ installExit = 0 =>
         /\ SequenceCompleted
         /\ ralphyFile = script
         /\ \A k \in PatchIds : ReplacementPresent(k, ralphyFile)
    /\ (response # "ok" \/ FirstMissing(UpstreamText(upstream)) # 0)
         => installExit = 1

\* C25: an install run that has failed, at the download, at a patch or at
\* the wrapper and launcher files, has left ralphy.sh exactly as it was
\* before the run.
C25_FailedInstallKeepsScript ==
  (ipc = "exited" /\ installExit = 1) => ralphyFile = fileBefore

\* C26: a step that writes ralphy.sh writes a text holding the full
\* replacement of every patch, and a patch step skipped as already applied
\* was given a script that holds the full replacement of that patch.
C26_WrittenScriptHoldsEveryPatch ==
  [][/\ (ipc = "write" /\ ipc' = "aux")
          => \A k \in PatchIds : ReplacementPresent(k, ralphyFile')
     /\ (ipc = "patch" /\ Len(patchLog') = Len(patchLog) + 1
           /\ patchLog'[Len(patchLog')].branch = "skipped")
          => ReplacementPresent(patchLog'[Len(patchLog')].patch, script)]_vars

(***************************************************************************)
(* `ralph run` (ralph.ts 1982-2109, 2235-2262).                            *)
(***************************************************************************)
\* the command lines tried; "" is an option not given, 0 a number not given
RunOptionSets ==
  [prd : {"", "a.md"}, yaml : {"", "t.yaml"}, model : {"", "m"},
   selectModel : BOOLEAN, parallel : BOOLEAN, maxParallel : {0, 2},
   fast : BOOLEAN, branchPerTask : {FALSE}, createPr : {FALSE},
   draftPr : {FALSE}, maxIterations : {0, 2}, dryRun : BOOLEAN,
   verbose : {FALSE}]

NoRunOptions ==
  [prd |-> "", yaml |-> "", model |-> "", selectModel |-> FALSE,
   parallel |-> FALSE, maxParallel |-> 0, fast |-> FALSE,
   branchPerTask |-> FALSE, createPr |-> FALSE, draftPr |-> FALSE,
   maxIterations |-> 0, dryRun |-> FALSE, verbose |-> FALSE]

\* String(n) for the numbers of the model
NumberToString(n) == CASE n = 2 -> "2" [] n = 3 -> "3" [] OTHER -> "0"

\* const args, built from the options and the selected model
BuildArgs(o, selectedModel) ==
  <<"--opencode">>
    \o (IF selectedModel # "" THEN <<"--model", selectedModel>> ELSE <<>>)
    \o (IF o.yaml # "" THEN <<"--yaml", o.yaml>>
        ELSE IF o.prd # "" THEN <<"--prd", o.prd>>
        ELSE <<"--prd", "PRD.md">>)
    \o (IF o.parallel
          THEN <<"--parallel", "--max-parallel",
                 NumberToString(IF o.maxParallel # 0 THEN o.maxParallel ELSE 3)>>
          ELSE <<>>)
    \o (IF o.fast THEN <<"--fast">> ELSE <<>>)
    \o (IF o.branchPerTask THEN <<"--branch-per-task">> ELSE <<>>)
    \o (IF o.createPr THEN <<"--create-pr">> ELSE <<>>)
    \o (IF o.draftPr THEN <<"--draft-pr">> ELSE <<>>)
    \o (IF o.maxIterations > 0
          THEN <<"--max-iterations", NumberToString(o.maxIterations)>>
          ELSE <<>>)
    \o (IF o.dryRun THEN <<"--dry-run">> ELSE <<>>)
    \o (IF o.verbose THEN <<"--verbose">> ELSE <<>>)

\* the exit codes of ralphy.sh tried
ChildCodes == {0, 1, 2, 130, 255}

\* how the child ends: "close" with an exit code, "close" after a signal
\* (code is null), or "error" (the process could not be spawned)
ChildEnds ==
  [how : {"close"}, code : ChildCodes]
    \cup {[how |-> "signal", code |-> 0], [how |-> "error", code |-> 0]}

NoChild == [how |-> "none", code |-> 0]
NoFailure == [kind |-> "none", code |-> 0]

\* the promise runRalphy returns: resolved on code === 0, rejected otherwise
\* with new Error(`Ralphy exited with code ${code}`), or with the spawn error
ChildFailure(end) ==
  IF end.how = "close"
    THEN IF end.code = 0 THEN NoFailure
         ELSE [kind |-> "exited_with_code", code |-> end.code]
  ELSE IF end.how = "signal" THEN [kind |-> "exited_with_code_null", code |-> 0]
  ELSE [kind |-> "spawn_error", code |-> 0]

\* the status the process of `ralph run` ends with: process.exit(1) in the
\* catch of the handler, a normal return otherwise
RunExitCode(failure) == IF failure.kind # "none" THEN 1 ELSE 0

RunIdle ==
  /\ rpc = "idle"
  /\ runOptions = NoRunOptions
  /\ args = <<>>
  /\ childEnd = NoChild
  /\ runFailure = NoFailure
  /\ runExit = 0

\* the handler up to the spawn of ralphy.sh, or to its end: ralphy.sh is
\* installed; gitBash is whether findGitBash finds one; picked is the answer
\* of the model selector ("" when the user cancels it)
RunStart(o, gitBash, picked) ==
  /\ rpc = "idle"
  /\ ralphyFile # <<>>
  /\ (o.selectModel /\ o.model = "") \/ picked = ""
  /\ runOptions' = o
  /\ LET selectedModel == IF o.selectModel /\ o.model = "" THEN picked ELSE o.model
     IN IF ~gitBash
          THEN rpc' = "exited" /\ runExit' = 1 /\ args' = <<>>
          ELSE IF o.selectModel /\ o.model = "" /\ picked = ""
            THEN rpc' = "exited" /\ runExit' = RunExitCode(NoFailure) /\ args' = <<>>
            ELSE rpc' = "spawned" /\ runExit' = runExit
                 /\ args' = BuildArgs(o, selectedModel)
  /\ UNCHANGED <<childEnd, runFailure>>

\* the child's "close" or "error" event, the settled promise and the end of
\* the handler
ChildClose(end) ==
  /\ rpc = "spawned"
  /\ childEnd' = end
  /\ runFailure' = ChildFailure(end)
  /\ runExit' = RunExitCode(ChildFailure(end))
  /\ rpc' = "exited"
  /\ UNCHANGED <<runOptions, args>>

\* C11: when the script spawned by `ralph run` has exited with code c, the
\* process of the CLI has exit status c, and for c other than 0 the failure
\* handed to the caller carries c.
C11_RunRelaysExitCode ==
  (rpc = "exited" /\ childEnd.how = "close")
    => /\ runExit = childEnd.code
       /\ childEnd.code # 0 => runFailure.code = childEnd.code

(***************************************************************************)
(* The project scanner of list (part_008) and of go (part_011); delete     *)
(* scans with the code of go and depth 3.  A path is a sequence of names,  *)
(* a name a sequence of characters.                                        *)
(***************************************************************************)
scanHome == << <<"h">> >>
\* HOME/Projects, the one of SEARCH_PATHS that exists
searchRoot == Append(scanHome, <<"P">>)
\* three directories of HOME/Projects, named ba, Ab and bab
appC == Append(searchRoot, <<"b", "a">>)
appA == Append(searchRoot, <<"A", "b">>)
appB == Append(searchRoot, <<"b", "a", "b">>)
\* a directory inside Ab, and one inside that
appAWeb == Append(appA, <<"w">>)
appAWebSrc == Append(appAWeb, <<"s">>)
\* a hidden directory and a node_modules directory of HOME/Projects
hiddenDir == Append(searchRoot, <<".", "g">>)
modulesDir == Append(searchRoot, <<"node_modules">>)
\* a path that does not exist
noSuchDir == << <<"n">> >>

ScanDirs == {scanHome, searchRoot, appC, appA, appB, appAWeb, appAWebSrc,
             hiddenDir, modulesDir}

\* readdirSync(dir): the names of the entries of dir, in the order listed
Entries(dir) ==
  CASE dir = scanHome -> << <<"P">> >>
    [] dir = searchRoot ->
         << <<".", "g">>, <<"b", "a">>, <<"A", "b">>, <<"b", "a", "b">>,
            <<"node_modules">> >>
    [] dir = appA -> << <<"w">> >>
    [] dir = appAWeb -> << <<"s">> >>
    [] OTHER -> <<>>

\* statSync(dir).mtime
Mtime(dir) ==
  CASE dir = appC -> 1 [] dir = appA -> 3 [] dir = appB -> 2
    [] dir = appAWeb -> 5 [] dir = appAWebSrc -> 4 [] OTHER -> 0

\* what project.yaml of a directory says: no file; stack.monorepo: true;
\* monorepo: true outside stack; stack.apps.web.framework naming next, vite
\* or something else; no stack at all; text the parser rejects
YamlKinds == {"none", "stack_monorepo", "top_monorepo", "framework_next",
              "framework_vite", "framework_other", "plain", "broken"}
\* what package.json of a directory says: no file; next among dependencies or
\* devDependencies; vite among devDependencies; expo among dependencies;
\* workspaces; none of these, with and without a turbo.json next to it; text
\* that is not JSON
PkgKinds == {"none", "dep_next", "devdep_next", "devdep_vite", "dep_expo",
             "workspaces", "plain_turbo_json", "plain", "broken"}

NoMarkers == [yaml |-> "none", pkg |-> "none"]

\* existsSync(join(dir, "project.yaml")), existsSync(join(dir, "package.json"))
HasYaml(t, dir) == dir \in ScanDirs /\ t[dir].yaml # "none"
HasPkg(t, dir) == dir \in ScanDirs /\ t[dir].pkg # "none"

\* a reading of project.yaml that names the monorepo template "monorepo"
YamlTemplateShortName(k) ==
  CASE k = "stack_monorepo" -> "monorepo"
    [] k = "framework_next" -> "next-only"
    [] k = "framework_vite" -> "vite-only"
    [] k = "broken" -> "devkitx"
    [] OTHER -> "unknown"

\* getProjectInfo of list: the template read from project.yaml
YamlTemplate(k) ==
  CASE k = "stack_monorepo" -> "turbo-monorepo"
    [] k = "framework_next" -> "next-only"
    [] k = "framework_vite" -> "vite-only"
    [] k = "broken" -> "devkitx"
    [] OTHER -> "unknown"

\* getProjectInfo of list: the template read from package.json
PkgTemplate(k) ==
  CASE k \in {"dep_next", "devdep_next"} -> "next.js"
    [] k = "devdep_vite" -> "vite"
    [] k = "dep_expo" -> "expo"
    [] k \in {"workspaces", "plain_turbo_json"} -> "monorepo"
    [] OTHER -> "node"

\* getProjectInfo(dir, hasProjectYaml) of list: name, path, template and
\* lastModified of the record
ListProjectInfo(t, dir, hasProjectYaml) ==
  [name |-> dir[Len(dir)], path |-> dir,
   template |-> IF hasProjectYaml THEN YamlTemplate(t[dir].yaml)
                ELSE PkgTemplate(t[dir].pkg),
   lastModified |-> Mtime(dir)]

\* the entries the scan does not enter
SkippedName(name) ==
  \/ StartsWith(name, <<".">>)
  \/ name \in { <<"node_modules">>, <<"dist">>, <<".", "next">>,
                <<".", "turbo">>, <<"build">> }

RECURSIVE FindProjects(_, _, _, _)
RECURSIVE FindInEntries(_, _, _, _, _)
\* findProjects(dir, projects, depth, includeAll): the records it pushes
FindProjects(t, dir, depth, all) ==
  IF depth < 0 THEN <<>>
  ELSE IF dir \notin ScanDirs THEN <<>>
  ELSE IF HasYaml(t, dir) \/ (all /\ HasPkg(t, dir))
    THEN <<ListProjectInfo(t, dir, HasYaml(t, dir))>>
    ELSE FindInEntries(t, dir, 1, depth, all)

\* the loop over the entries of dir, from entry i on
FindInEntries(t, dir, i, depth, all) ==
  IF i > Len(Entries(dir)) THEN <<>>
  ELSE (IF SkippedName(Entries(dir)[i]) THEN <<>>
        ELSE FindProjects(t, Append(dir, Entries(dir)[i]), depth - 1, all))
       \o FindInEntries(t, dir, i + 1, depth, all)

RECURSIVE SearchAll(_, _, _, _)
\* the loop over pathsToSearch
SearchAll(t, roots, depth, all) ==
  IF roots = <<>> THEN <<>>
  ELSE FindProjects(t, Head(roots), depth, all)
       \o SearchAll(t, Tail(roots), depth, all)

\* projects.filter((project, index, self) =>
\*   index === self.findIndex(p => p.path === project.path)), without any
\* filtering
DedupNone(projects) == projects
\* projects.filter((project, index, self) =>
\*   index === self.findIndex(p => p.path === project.path))
Dedup(projects) ==
  LET first(i) == \A j \in 1..(i - 1) : projects[j].path # projects[i].path
      F[i \in 0..Len(projects)] ==
        IF i = 0 THEN <<>>
        ELSE IF first(i) THEN Append(F[i - 1], projects[i]) ELSE F[i - 1]
  IN F[Len(projects)]

\* projects.sort((a, b) => b.lastModified - a.lastModified): a stable sort,
\* the most recent first
SortByLastModified(projects) ==
  LET Insert(sorted, r) ==
        LET after == {i \in 1..Len(sorted) :
                        sorted[i].lastModified < r.lastModified}
            at == IF after = {} THEN Len(sorted) + 1
                  ELSE CHOOSE i \in after : \A j \in after : i <= j
        IN SubSeq(sorted, 1, at - 1) \o <<r>> \o SubSeq(sorted, at, Len(sorted))
      F[i \in 0..Len(projects)] ==
        IF i = 0 THEN <<>> ELSE Insert(F[i - 1], projects[i])
  IN F[Len(projects)]

\* SEARCH_PATHS.map(p => join(homeDir, p)): Documents and Projects of them
SearchPaths == <<Append(scanHome, <<"D">>), searchRoot>>

\* .filter(p => existsSync(p))
ExistingSearchPaths == SelectSeq(SearchPaths, LAMBDA d : d \in ScanDirs)

\* parseInt(options.depth, 10) || 2, for the number the option parses to
SearchDepth(depthOpt) == IF depthOpt = 0 THEN 2 ELSE depthOpt

\* the roots of list: options.path alone, or the working directory and then
\* the search paths that exist (pathOpt = <<>> is "no option")
ListRoots(pathOpt, c) ==
  IF pathOpt # <<>> THEN <<pathOpt>> ELSE <<c>> \o ExistingSearchPaths

\* getProjectInfo of go: name, path and lastModified of the record
GoProjectInfo(dir) ==
  [name |-> dir[Len(dir)], path |-> dir, lastModified |-> Mtime(dir)]

RECURSIVE FindProjectsInDir(_, _, _)
RECURSIVE FindInDirEntries(_, _, _, _)
\* findProjectsInDir(dir, projects, depth) of go: the records it pushes
FindProjectsInDir(t, dir, depth) ==
  IF depth < 0 THEN <<>>
  ELSE IF dir \notin ScanDirs THEN <<>>
  ELSE IF HasYaml(t, dir) THEN <<GoProjectInfo(dir)>>
  ELSE FindInDirEntries(t, dir, 1, depth)

\* its loop over the entries of dir, from entry i on
FindInDirEntries(t, dir, i, depth) ==
  IF i > Len(Entries(dir)) THEN <<>>
  ELSE (IF SkippedName(Entries(dir)[i]) THEN <<>>
        ELSE FindProjectsInDir(t, Append(dir, Entries(dir)[i]), depth - 1))
       \o FindInDirEntries(t, dir, i + 1, depth)

RECURSIVE GoSearchAll(_, _)
\* findAllProjects(homeDir) of go, before the duplicates are removed
GoSearchAll(t, roots) ==
  IF roots = <<>> THEN <<>>
  ELSE FindProjectsInDir(t, Head(roots), 2) \o GoSearchAll(t, Tail(roots))

\* findAllProjects(homeDir) of go
GoFindAllProjects(t) == Dedup(GoSearchAll(t, ExistingSearchPaths))

\* what the directories of the trees scanned hold
AppAMarkers ==
  {[yaml |-> y, pkg |-> "none"] : y \in YamlKinds}
    \cup {[yaml |-> y, pkg |-> "workspaces"] : y \in {"none", "stack_monorepo"}}
AppBMarkers ==
  {[yaml |-> "none", pkg |-> k] : k \in PkgKinds}
    \cup {[yaml |-> "plain", pkg |-> "dep_next"]}
AppCMarkers == {NoMarkers, [yaml |-> "plain", pkg |-> "none"]}
AppAWebMarkers ==
  {NoMarkers, [yaml |-> "framework_next", pkg |-> "none"],
   [yaml |-> "none", pkg |-> "dep_next"]}
SkippedMarkers == {NoMarkers, [yaml |-> "plain", pkg |-> "plain"]}

\* the trees scanned
Trees ==
  {[d \in ScanDirs |->
      CASE d = appA -> a [] d = appB -> b [] d = appC -> c [] d = appAWeb -> w
        [] d \in {hiddenDir, modulesDir} -> h [] OTHER -> NoMarkers] :
     a \in AppAMarkers, b \in AppBMarkers, c \in AppCMarkers,
     w \in AppAWebMarkers, h \in SkippedMarkers}

PathOptions == {<<>>, searchRoot, appA, appAWeb, noSuchDir}
ListCwds == {scanHome, searchRoot, appA, appAWeb}
DepthOptions == {0, 1, 2, 3}
GoNames == {<<>>, <<"a">>, <<"b">>, <<"B">>, <<"a", "b">>, <<"b", "a">>,
            <<"b", "a", "b">>, <<"w">>, <<"x">>}

ScanIdle ==
  /\ spc = "idle"
  /\ pathsToSearch = <<>>
  /\ searchDepth = 0
  /\ includeAll = FALSE
  /\ uniqueProjects = <<>>
  /\ goName = <<>>
  /\ selectedProject = 0

\* the tree of the specifications that do not scan
NoTree == [d \in ScanDirs |-> NoMarkers]

\* dx list [--path pathOpt] [--depth depthOpt] [--all], run in directory c
ListCommand(pathOpt, c, depthOpt, all) ==
  /\ spc = "idle"
  /\ spc' = "list"
  /\ pathsToSearch' = ListRoots(pathOpt, c)
  /\ searchDepth' = SearchDepth(depthOpt)
  /\ includeAll' = all
  /\ uniqueProjects' =
       SortByLastModified(Dedup(SearchAll(tree, ListRoots(pathOpt, c),
                                          SearchDepth(depthOpt), all)))
  /\ UNCHANGED <<tree, goName, selectedProject>>

\* dx go [name]: the lookup by name, or the picker over the projects sorted
\* (the user selects entry sel, or cancels with sel = 0)
GoCommand(name, sel) ==
  /\ spc = "idle"
  /\ spc' = "go"
  /\ pathsToSearch' = ExistingSearchPaths
  /\ searchDepth' = 2
  /\ goName' = name
  /\ \E projects \in {GoFindAllProjects(tree)} :
       IF projects = <<>>
         THEN uniqueProjects' = <<>> /\ selectedProject' = 0
       ELSE IF name # <<>>
         THEN /\ uniqueProjects' = projects
              /\ selectedProject' = FindByName(projects, name)
         ELSE /\ uniqueProjects' = SortByLastModified(projects)
              /\ selectedProject' = IF sel <= Len(projects) THEN sel ELSE 0
  /\ UNCHANGED <<tree, includeAll>>

(***************************************************************************)
(* Properties of the scanner.                                              *)
(***************************************************************************)
\* the records the roots of the last scan gave, before the duplicates went
RawRecords ==
  IF spc = "list"
    THEN SearchAll(tree, pathsToSearch, searchDepth, includeAll)
    ELSE GoSearchAll(tree, pathsToSearch)

\* directory below is strictly beneath directory above
Beneath(below, above) ==
  Len(above) < Len(below) /\ SubSeq(below, 1, Len(above)) = above

\* C12: whatever the roots of a scan, overlapping ones included, the records
\* the scan ends with hold no two records with equal path.
C12_NoTwoRecordsWithEqualPath ==
  \A i, j \in 1..Len(uniqueProjects) :
    i # j => uniqueProjects[i].path # uniqueProjects[j].path

\* a list whose second root lies inside its first, the roots having given
\* the same projects twice
C12_Witness ==
  /\ spc = "list"
  /\ Len(pathsToSearch) = 2
  /\ Beneath(pathsToSearch[2], pathsToSearch[1])
  /\ Len(uniqueProjects) >= 2
  /\ Len(RawRecords) = 2 * Len(uniqueProjects)

\* C13: a directory that qualifies as a project is never descended into: no
\* directory beneath a directory of the scan result is in the scan result.
C13_NoProjectBeneathProject ==
  \A i, j \in 1..Len(uniqueProjects) :
    ~Beneath(uniqueProjects[i].path, uniqueProjects[j].path)

\* the scan of HOME/Projects alone, depth 2, non-marked projects included,
\* where Ab holds a project.yaml declaring stack.monorepo: true, bab only a
\* package.json that depends on next, and ba no marker
TwoProjectScan ==
  /\ spc = "list"
  /\ pathsToSearch = <<searchRoot>>
  /\ searchDepth = 2
  /\ includeAll
  /\ tree[appA].yaml = "stack_monorepo"
  /\ tree[appB].yaml = "none"
  /\ tree[appB].pkg \in {"dep_next", "devdep_next"}
  /\ tree[appC] = NoMarkers

\* the scan ended with exactly two records, of Ab with template ofA and of
\* bab with template ofB
TwoRecords(ofA, ofB) ==
  /\ Len(uniqueProjects) = 2
  /\ \E i, j \in 1..2 :
       /\ uniqueProjects[i].path = appA /\ uniqueProjects[i].template = ofA
       /\ uniqueProjects[j].path = appB /\ uniqueProjects[j].template = ofB

\* C14 as stated: that scan returns exactly two records, with templates
\* "monorepo" and "next.js".
C14_TemplatesMonorepoAndNext == TwoProjectScan => TwoRecords("monorepo", "next.js")

\* C14: that scan returns exactly two records, with templates "turbo-monorepo"
\* for the project.yaml declaring stack.monorepo: true and "next.js" for the
\* package.json that depends on next.
C14_TemplatesTurboMonorepoAndNext ==
  TwoProjectScan => TwoRecords("turbo-monorepo", "next.js")

\* that scan, of a tree where a directory inside Ab holds a marker too
C14_Witness ==
  /\ TwoProjectScan
  /\ tree[appAWeb] # NoMarkers
  /\ uniqueProjects[1].path = appA

\* the positions, in scan order, of the projects whose name is the argument
\* of go, begins with it, contains it (letter case apart)
ExactMatches ==
  {i \in 1..Len(uniqueProjects) :
     ToLowerCase(uniqueProjects[i].name) = ToLowerCase(goName)}
PrefixMatches ==
  {i \in 1..Len(uniqueProjects) :
     StartsWith(ToLowerCase(uniqueProjects[i].name), ToLowerCase(goName))}
SubstringMatches ==
  {i \in 1..Len(uniqueProjects) :
     Includes(ToLowerCase(uniqueProjects[i].name), ToLowerCase(goName))}

\* the project chosen is the first, in scan order, of the set
ChosenFirstOf(matches) ==
  selectedProject \in matches /\ \A i \in matches : selectedProject <= i

Invocations == {1, 2}

\* new Date().toISOString(): the same width at every second
ToISOString(now) ==
  <<CASE now = 0 -> "0" [] now = 1 -> "1" [] now = 2 -> "2" [] OTHER -> "3">>

\* JSON.stringify(undoInfo, null, 2)
Stringify(rec) ==
  <<"{">> \o rec.name \o <<",">> \o rec.originalPath \o <<",">>
    \o rec.backupPath[1] \o <<"-">> \o ToISOString(rec.backupPath[2])
    \o <<",">> \o ToISOString(rec.deletedAt) \o <<"}">>

\* the undoInfo of a delete of project directory d, backed up at second
\* now and removed by second later
UndoInfoOf(d, now, later) ==
  UndoRecord(Basename(d), d, BackupPathOf(Basename(d), now), later)

RaceIdle ==
  /\ undoFile = <<>>
  /\ wpc = [i \in Invocations |-> "off"]
  /\ wrec = [i \in Invocations |-> NoLedger]
  /\ lastWriter = 0

\* writeFileSync, first half: open(UNDO_FILE, "w") truncates the file
OpenUndoFile(i) ==
  /\ wpc[i] = "removed"
  /\ wpc' = [wpc EXCEPT ![i] = "opened"]
  /\ undoFile' = <<>>
  /\ UNCHANGED <<wrec, lastWriter>>

\* writeFileSync, second half: the text is written from offset 0, over what
\* the file holds there, and the file is closed
WriteUndoFile(i) ==
  /\ wpc[i] = "opened"
  /\ wpc' = [wpc EXCEPT ![i] = "finished"]
  /\ \E text \in {Stringify(wrec[i])} :
       undoFile' = text \o SubSeq(undoFile, Len(text) + 1, Len(undoFile))
  /\ lastWriter' = i
  /\ UNCHANGED wrec

\* C19: after two concurrent deletes with successful backups have both
\* finished, UNDO_FILE holds the whole record of the one that wrote last,
\* and nothing else.
C19_LastWriterWins ==
  (\A i \in Invocations : wpc[i] = "finished")
    => undoFile = Stringify(wrec[lastWriter])

(***************************************************************************)
(* The MSYS2 fixes: apply_msys2_compatibility_fixes (src/src/ralphy/main.sh)*)
(* and the two versions of fix_ralphy_for_msys2 (src/src/ralphy/fixes.sh,  *)
(* version 1.0.0, and src/unnamed/part_005, version 2.0.0).  The content of *)
(* a script is the set of the kinds of line it holds; each grep and each   *)
(* sed expression of the code is given by the kinds of line it matches and *)
(* what it turns them into.                                                *)
(*   "strict"    set -euo pipefail                                         *)
(*   "cmdv"      if ! command -v jq >/dev/null 2>&1; then                  *)
(*   "cmdv_pos"  if command -v jq >/dev/null 2>&1; then                    *)
(*   "arith"     ((i++))                                                   *)
(*   "paren"     x=$(date)      a line with one pair of parentheses        *)
(***************************************************************************)
LineKinds == {"strict", "cmdv", "cmdv_pos", "arith", "paren"}
FixesScripts == {"fixes.sh", "part_005"}
NoScript == [exists |-> FALSE, lines |-> {}]
FileOf(ls) == [exists |-> TRUE, lines |-> ls]
DryRunArgs == {"", "dry-run"}

FixIdle ==
  /\ fixesScript = "fixes.sh"
  /\ targetFile = NoScript
  /\ backupFiles = [t \in 0..MaxFixClock |-> NoScript]
  /\ backupDir = FALSE
  /\ flagDir = FALSE
  /\ flagFile = FALSE
  /\ autoFix = TRUE
  /\ autoFixOnce = TRUE
  /\ msys2 = FALSE
  /\ fixClock = 0
  /\ fixLog = <<>>

\* grep -c 'if ! \(command -v [[:alnum:]_/-]*\) >/dev/null 2>&1; then' is not 0
Pattern1(ls) == "cmdv" \in ls
\* grep -c 'if \(command -v [[:alnum:]_/-]*\) >/dev/null 2>&1; then' is not 0
Pattern1b(ls) == "cmdv_pos" \in ls
\* grep -c '(([[:space:]]*\([[:alnum:]_]*\)++[[:space:]]*))' is not 0
Pattern2(ls) == "arith" \in ls
\* grep -c '^set -euo pipefail$' is not 0
Pattern3(ls) == "strict" \in ls

\* sed: if ! command -v jq >/dev/null 2>&1; then
\*   -> if ! (command -v jq >/dev/null 2&1); then
WrapNegativeChecks(ls) == {IF l = "cmdv" THEN "cmdv_sub" ELSE l : l \in ls}
\* sed: if command -v jq >/dev/null 2>&1; then
\*   -> if (command -v jq >/dev/null 2&1); then
WrapPositiveChecks(ls) == {IF l = "cmdv_pos" THEN "cmdv_pos_sub" ELSE l : l \in ls}
\* first expression for pattern 2: ((i++)) -> i++)) || true
AppendOrTrue(ls) == {IF l = "arith" THEN "arith_true" ELSE l : l \in ls}
\* second expression for pattern 2, s/(\([^)]*\)\+\+)/(\1++)) || true/g: it
\* matches every parenthesis pair of the script, so x=$(date) becomes
\* x=$(++)) || true and a check the first fix has wrapped becomes
\* if ! (++)) || true; then
SimplerCases(ls) ==
  {CASE l = "cmdv_sub" -> "cmdv_garbled"
     [] l = "cmdv_pos_sub" -> "cmdv_pos_garbled"
     [] l = "paren" -> "paren_garbled"
     [] l \in {"cmdv_garbled", "cmdv_pos_garbled", "paren_garbled"} -> "garbled_again"
     [] OTHER -> l : l \in ls}
\* sed: set -euo pipefail -> # set -euo pipefail  # Disabled for MSYS2 compatibility
DisableStrictMode(ls) == {IF l = "strict" THEN "strict_off" ELSE l : l \in ls}

\* the three fix patterns of version 1.0.0, in the order of the code: the
\* lines of the file afterwards and fixed_count
FixesV1(ls) ==
  LET a == IF Pattern1(ls) THEN WrapNegativeChecks(ls) ELSE ls
      b == IF Pattern1b(a) THEN WrapPositiveChecks(a) ELSE a
      c == IF Pattern2(b) THEN SimplerCases(AppendOrTrue(b)) ELSE b
      d == IF Pattern3(c) THEN DisableStrictMode(c) ELSE c
  IN [lines |-> d,
      fixed_count |-> (IF Pattern1(ls) THEN 1 ELSE 0) + (IF Pattern1b(a) THEN 1 ELSE 0)
                        + (IF Pattern2(b) THEN 1 ELSE 0) + (IF Pattern3(c) THEN 1 ELSE 0)]

\* version 2.0.0 only comments the strict-mode directive out
FixesV2(ls) ==
  [lines |-> IF Pattern3(ls) THEN DisableStrictMode(ls) ELSE ls,
   fixed_count |-> IF Pattern3(ls) THEN 1 ELSE 0]

\* a fix that ignores its second argument
CreatesBackupAlways(dry_run) == TRUE

\* whether fix_ralphy_for_msys2 makes a backup and rewrites the file
CreatesBackup(dry_run) == dry_run # "dry-run"

\* fix_ralphy_for_msys2 of script version ver on file at second now:
\* its exit status, the file afterwards, the backups afterwards, whether
\* ./.ralphy-backups exists afterwards and whether the file was copied
FixRalphyForMsys2(ver, file, dry_run, backups, dir, now) ==
  IF ~file.exists
  THEN [rc |-> 1, file |-> file, backups |-> backups, dir |-> dir, copied |-> FALSE]
  ELSE IF ~CreatesBackup(dry_run)
  THEN [rc |-> 0, file |-> file, backups |-> backups, dir |-> dir, copied |-> FALSE]
  ELSE LET fixed == IF ver = "fixes.sh" THEN FixesV1(file.lines) ELSE FixesV2(file.lines)
       IN [rc |-> 0,
           file |-> FileOf(fixed.lines),
           \* cp "$file" "${file}.bak.${timestamp}", removed again when
           \* fixed_count is 0
           backups |-> [backups EXCEPT ![now] =
                          IF fixed.fixed_count > 0 THEN file ELSE NoScript],
           dir |-> TRUE,
           copied |-> TRUE]

\* ralphy_main_fixes_already_applied: [[ -f "$flag_file" ]]
FixesAlreadyApplied == flagFile

\* ralphy_main_mark_fixes_applied: { echo ... } > "$flag_file" creates the
\* file when its directory exists, and fails otherwise
MarkFixesApplied == flagFile \/ flagDir

\* a call of fix_ralphy_for_msys2 "$ralphy_file" [dry-run]
FixRalphy(dry_run) ==
  /\ Len(fixLog) < MaxFixCalls
  /\ \E r \in {FixRalphyForMsys2(fixesScript, targetFile, dry_run, backupFiles,
                                 backupDir, fixClock)} :
       /\ targetFile' = r.file
       /\ backupFiles' = r.backups
       /\ backupDir' = r.dir
       /\ fixLog' = Append(fixLog, [fn |-> "fix_ralphy_for_msys2", dry_run |-> dry_run,
                                    rc |-> r.rc, copied |-> r.copied])
  /\ UNCHANGED <<fixesScript, flagDir, flagFile, autoFix, autoFixOnce, msys2, fixClock>>

\* why apply_msys2_compatibility_fixes returns 1 before it calls
\* fix_ralphy_for_msys2, "" when it calls it
ApplySkips ==
  IF ~autoFix THEN "disabled"
  ELSE IF ~msys2 THEN "not_msys2"
  ELSE IF autoFixOnce /\ FixesAlreadyApplied THEN "already_applied"
  ELSE IF ~targetFile.exists THEN "not_found"
  ELSE ""

\* a call of apply_msys2_compatibility_fixes "$project_root"
ApplyMsys2CompatibilityFixes ==
  /\ Len(fixLog) < MaxFixCalls
  /\ IF ApplySkips # ""
     THEN /\ fixLog' = Append(fixLog, [fn |-> "apply_msys2_compatibility_fixes",
                                       dry_run |-> "", rc |-> 1, copied |-> FALSE])
          /\ UNCHANGED <<targetFile, backupFiles, backupDir, flagFile>>
     ELSE \E r \in {FixRalphyForMsys2(fixesScript, targetFile, "", backupFiles,
                                      backupDir, fixClock)} :
            /\ targetFile' = r.file
            /\ backupFiles' = r.backups
            /\ backupDir' = r.dir
            /\ flagFile' = IF r.rc = 0 THEN MarkFixesApplied ELSE flagFile
            /\ fixLog' = Append(fixLog, [fn |-> "apply_msys2_compatibility_fixes",
                                         dry_run |-> "", rc |-> IF r.rc = 0 THEN 0 ELSE 1,
                                         copied |-> r.copied])
  /\ UNCHANGED <<fixesScript, flagDir, autoFix, autoFixOnce, msys2, fixClock>>

\* a second passes: date +%Y%m%d_%H%M%S gives the next time stamp
FixTick ==
  /\ fixClock < MaxFixClock
  /\ fixClock' = fixClock + 1
  /\ UNCHANGED <<fixesScript, targetFile, backupFiles, backupDir, flagDir, flagFile,
                 autoFix, autoFixOnce, msys2, fixLog>>

(***************************************************************************)
(* Properties of the MSYS2 fixes.                                          *)
(***************************************************************************)
LastCall == fixLog[Len(fixLog)]
\* the step is a call of function fn
Calls(fn) == Len(fixLog') = Len(fixLog) + 1 /\ fixLog'[Len(fixLog')].fn = fn
\* an earlier call of apply_msys2_compatibility_fixes returned 0
AppliedBefore ==
  \E i \in 1..Len(fixLog) :
    fixLog[i].fn = "apply_msys2_compatibility_fixes" /\ fixLog[i].rc = 0

\* C29: with RALPHY_AUTO_FIX_ONCE=true, once a call of
\* apply_msys2_compatibility_fixes has returned 0, every later call of it
\* for the project returns non-zero, leaves ralphy.sh as it is and copies
\* no backup.
C29_FixesAppliedOnce ==
  [][(autoFixOnce /\ AppliedBefore /\ Calls("apply_msys2_compatibility_fixes"))
       => /\ fixLog'[Len(fixLog')].rc # 0
          /\ ~fixLog'[Len(fixLog')].copied
          /\ targetFile' = targetFile
          /\ backupFiles' = backupFiles]_vars

\* C30: a call of fix_ralphy_for_msys2 in dry-run mode on an existing file
\* returns 0 and leaves the file, the backups and the backup directory as
\* they are, whatever the file holds.
C30_DryRunChangesNothing ==
  [][(Calls("fix_ralphy_for_msys2") /\ fixLog'[Len(fixLog')].dry_run = "dry-run"
        /\ targetFile.exists)
       => /\ fixLog'[Len(fixLog')].rc = 0
          /\ ~fixLog'[Len(fixLog')].copied
          /\ targetFile' = targetFile
          /\ backupFiles' = backupFiles
          /\ backupDir' = backupDir
          /\ flagFile' = flagFile]_vars

\* a dry run has returned on a script that holds all three patterns, which
\* the same call without dry-run would have rewritten
C30_Witness ==
  /\ fixLog # <<>>
  /\ LastCall.fn = "fix_ralphy_for_msys2"
  /\ LastCall.dry_run = "dry-run"
  /\ LastCall.rc = 0
  /\ targetFile.exists
  /\ {"strict", "cmdv", "arith"} \subseteq targetFile.lines
  /\ FixRalphyForMsys2(fixesScript, targetFile, "", backupFiles, backupDir,
                       fixClock).file # targetFile

(***************************************************************************)
(* Specifications.                                                         *)
(***************************************************************************)
\* delete and undo; the installer stays idle
Init ==
  /\ InitWorld
  /\ InitCmd
  /\ upstream = [k \in PatchIds |-> "old"]
  /\ InstallIdle
  /\ RunIdle
  /\ tree = NoTree
  /\ ScanIdle
  /\ RaceIdle
  /\ FixIdle

Next ==
  \/ \E a \in SeqPathArgs, o \in SeqOptions, c \in SeqCwds :
       DeleteStart(a, o, c, 0) /\ UNCHANGED <<installVars, extraVars>>
  \/ \E value \in TypedInputs : ConfirmSubmit(value) /\ UNCHANGED <<installVars, extraVars>>
  \/ ConfirmCancel /\ UNCHANGED <<installVars, extraVars>>
  \/ \E ans \in {"yes", "no", "cancel"} : BackupAnswer(ans) /\ UNCHANGED <<installVars, extraVars>>
  \/ \E res \in ArchiverResults : CreateBackup(res) /\ UNCHANGED <<installVars, extraVars>>
  \/ RemoveNodeModules(FALSE) /\ UNCHANGED <<installVars, extraVars>>
  \/ RemoveBuildArtifacts(FALSE) /\ UNCHANGED <<installVars, extraVars>>
  \/ \E throws \in BOOLEAN : RemoveProjectFiles(throws) /\ UNCHANGED <<installVars, extraVars>>
  \/ RecordUndo /\ UNCHANGED <<installVars, extraVars>>
  \/ \E c \in SeqCwds : UndoStart(c) /\ UNCHANGED <<installVars, extraVars>>
  \/ \E ans \in {"yes", "no", "cancel"} : UndoAnswer(ans) /\ UNCHANGED <<installVars, extraVars>>
  \/ \E res \in ExtractResults : Restore(res) /\ UNCHANGED <<installVars, extraVars>>
  \/ Tick /\ UNCHANGED <<installVars, extraVars>>
  \/ Recreate(PA) /\ UNCHANGED <<installVars, extraVars>>
  \/ \E bp \in BackupPaths : LoseArchive(bp) /\ UNCHANGED <<installVars, extraVars>>
  \/ CorruptLedger /\ UNCHANGED <<installVars, extraVars>>

Spec == Init /\ [][Next]_vars

\* one run of delete, on every command line, target spelling and working
\* directory
NextDelete ==
  \/ \E a \in PathArgs, o \in Options, c \in Cwds, sel \in 0..Len(ScanOrder) :
       pc = "idle" /\ DeleteStart(a, o, c, sel) /\ UNCHANGED <<installVars, extraVars>>
  \/ \E value \in TypedInputs : ConfirmSubmit(value) /\ UNCHANGED <<installVars, extraVars>>
  \/ ConfirmCancel /\ UNCHANGED <<installVars, extraVars>>
  \/ \E ans \in {"yes", "no", "cancel"} : BackupAnswer(ans) /\ UNCHANGED <<installVars, extraVars>>
  \/ \E res \in ArchiverResults : CreateBackup(res) /\ UNCHANGED <<installVars, extraVars>>
  \/ \E throws \in BOOLEAN : RemoveNodeModules(throws) /\ UNCHANGED <<installVars, extraVars>>
  \/ \E throws \in BOOLEAN : RemoveBuildArtifacts(throws) /\ UNCHANGED <<installVars, extraVars>>
  \/ \E throws \in BOOLEAN : RemoveProjectFiles(throws) /\ UNCHANGED <<installVars, extraVars>>
  \/ RecordUndo /\ UNCHANGED <<installVars, extraVars>>

SpecDelete == Init /\ [][NextDelete]_vars

\* `ralph install` on every upstream script; delete and undo stay idle
InitInstall ==
  /\ InitWorld
  /\ InitCmd
  /\ upstream \in Upstreams
  /\ InstallIdle
  /\ RunIdle
  /\ tree = NoTree
  /\ ScanIdle
  /\ RaceIdle
  /\ FixIdle

NextInstall ==
  \/ \E res \in FetchResults : Download(res) /\ UNCHANGED extraVars
  \/ ApplyPatch /\ UNCHANGED extraVars
  \/ WriteScript /\ UNCHANGED extraVars
  \/ \E bundled \in BOOLEAN : InstallWrappers(bundled) /\ UNCHANGED extraVars

SpecInstall == InitInstall /\ [][NextInstall]_vars

\* `ralph run` with ralphy.sh installed from the unpatched upstream script;
\* delete, undo and the installer stay idle
InitRun ==
  /\ InitWorld
  /\ InitCmd
  /\ upstream = [k \in PatchIds |-> "old"]
  /\ script = <<>>
  /\ patchLog = <<>>
  /\ ralphyFile = PatchSequence(UpstreamText(upstream)).text
  /\ auxFiles = WrapperFiles \cup LauncherFiles
  /\ ipc = "idle"
  /\ installs = 0
  /\ response = "none"
  /\ downloads = 0
  /\ fileBefore = <<>>
  /\ installExit = 0
  /\ RunIdle
  /\ tree = NoTree
  /\ ScanIdle
  /\ RaceIdle
  /\ FixIdle

NextRun ==
  \/ \E o \in RunOptionSets, gitBash \in BOOLEAN, picked \in {"", "m"} :
       RunStart(o, gitBash, picked)
         /\ UNCHANGED <<worldVars, cmdVars, installVars, scanVars, raceVars, fixVars>>
  \/ \E end \in ChildEnds :
       ChildClose(end) /\ UNCHANGED <<worldVars, cmdVars, installVars, scanVars, raceVars, fixVars>>

SpecRun == InitRun /\ [][NextRun]_vars

InitScan ==
  /\ InitWorld
  /\ InitCmd
  /\ upstream = [k \in PatchIds |-> "old"]
  /\ InstallIdle
  /\ RunIdle
  /\ tree \in Trees
  /\ ScanIdle
  /\ RaceIdle
  /\ FixIdle

NextScan ==
  \/ \E pathOpt \in PathOptions, c \in ListCwds, depthOpt \in DepthOptions,
        all \in BOOLEAN :
       ListCommand(pathOpt, c, depthOpt, all)
         /\ UNCHANGED <<worldVars, cmdVars, installVars, runVars, raceVars, fixVars>>
  \/ \E name \in GoNames, sel \in 0..2 :
       GoCommand(name, sel)
         /\ UNCHANGED <<worldVars, cmdVars, installVars, runVars, raceVars, fixVars>>

SpecScan == InitScan /\ [][NextScan]_vars

InitRace ==
  /\ InitWorld
  /\ InitCmd
  /\ upstream = [k \in PatchIds |-> "old"]
  /\ InstallIdle
  /\ RunIdle
  /\ tree = NoTree
  /\ ScanIdle
  /\ undoFile \in {<<>>, Stringify(UndoInfoOf(PB, 0, 0))}
  /\ wpc = [i \in Invocations |-> "removed"]
  /\ wrec \in [Invocations -> {UndoInfoOf(d, now, later) :
                                 d \in {PA, PB}, now \in 1..2, later \in 2..3}]
  /\ lastWriter = 0
  /\ FixIdle

NextRace ==
  \/ \E i \in Invocations :
       OpenUndoFile(i)
         /\ UNCHANGED <<worldVars, cmdVars, installVars, runVars, scanVars, fixVars>>
  \/ \E i \in Invocations :
       WriteUndoFile(i)
         /\ UNCHANGED <<worldVars, cmdVars, installVars, runVars, scanVars, fixVars>>

SpecRace == InitRace /\ [][NextRace]_vars

NextRoundTrip ==
  \/ \E a \in TripPathArgs, o \in TripOptions, c \in TripCwds :
       DeleteStart(a, o, c, 0) /\ UNCHANGED <<installVars, extraVars>>
  \/ \E res \in ArchiverResults : CreateBackup(res) /\ UNCHANGED <<installVars, extraVars>>
  \/ RemoveNodeModules(FALSE) /\ UNCHANGED <<installVars, extraVars>>
  \/ RemoveBuildArtifacts(FALSE) /\ UNCHANGED <<installVars, extraVars>>
  \/ RemoveProjectFiles(FALSE) /\ UNCHANGED <<installVars, extraVars>>
  \/ RecordUndo /\ UNCHANGED <<installVars, extraVars>>
  \/ \E c \in TripCwds : UndoStart(c) /\ UNCHANGED <<installVars, extraVars>>
  \/ \E ans \in {"yes", "no", "cancel"} : UndoAnswer(ans) /\ UNCHANGED <<installVars, extraVars>>
  \/ \E res \in ExtractResults : Restore(res) /\ UNCHANGED <<installVars, extraVars>>

SpecRoundTrip == Init /\ [][NextRoundTrip]_vars

\* the MSYS2 fixes on every script content, with both versions of fixes.sh
InitFix ==
  /\ InitWorld
  /\ InitCmd
  /\ upstream = [k \in PatchIds |-> "old"]
  /\ InstallIdle
  /\ RunIdle
  /\ tree = NoTree
  /\ ScanIdle
  /\ RaceIdle
  /\ fixesScript \in FixesScripts
  /\ targetFile \in {NoScript} \cup {FileOf(ls) : ls \in SUBSET LineKinds}
  /\ backupFiles = [t \in 0..MaxFixClock |-> NoScript]
  /\ backupDir = FALSE
  /\ flagDir \in BOOLEAN
  /\ flagFile = FALSE
  /\ autoFix \in BOOLEAN
  /\ autoFixOnce \in BOOLEAN
  /\ msys2 \in BOOLEAN
  /\ fixClock = 0
  /\ fixLog = <<>>

NextFix ==
  \/ ApplyMsys2CompatibilityFixes
       /\ UNCHANGED <<worldVars, cmdVars, installVars, runVars, scanVars, raceVars>>
  \/ \E dry_run \in DryRunArgs :
       FixRalphy(dry_run)
         /\ UNCHANGED <<worldVars, cmdVars, installVars, runVars, scanVars, raceVars>>
  \/ FixTick /\ UNCHANGED <<worldVars, cmdVars, installVars, runVars, scanVars, raceVars>>

SpecFix == InitFix /\ [][NextFix]_vars

====
